---- MODULE Spec2Model ----
(***************************************************************************)
(* Verification model of qt-capture-speech: the speech-recognition session  *)
(* managers, the widgets that display their transcripts, and the services   *)
(* around them:                                                             *)
(*   - SpeechRecognition / MicrophoneStream  (app/speech_recognition.py)    *)
(*   - SpeechService                         (src/speech/speech_service.py) *)
(*   - SpeechRecognitionWidget               (app/speech_widget.py)         *)
(*   - SpeechWidget                          (src/gui/speech_widget.py)     *)
(*   - CameraApp                             (app/camera_app.py)            *)
(*   - CameraService                         (src/camera/camera_service.py) *)
(*   - FileManager                           (src/utils/file_manager.py)    *)
(*   - DIContainer                           (src/core/container.py)        *)
(*   - ConfigManager                         (src/core/config.py)           *)
(* Each object is a state machine driven by the consumer's calls on the     *)
(* control thread and by the steps of the worker threads it spawns.  The    *)
(* cloud provider, the audio driver and the camera are the environment:     *)
(* what they may return or raise is a nondeterministic choice.              *)
(***************************************************************************)
EXTENDS Integers, Sequences, FiniteSets, TLC

\* ------------------------------------------------------------------ bounds
MaxWorkers == 2      \* worker threads (sessions) one object may spawn
MaxCalls == 3        \* consumer calls (start / stop) on one object
MaxResponses == 2    \* provider responses delivered to one object's workers
MaxQueue == 2        \* audio chunks waiting in SpeechService.audio_queue
MaxFrames == 3       \* frames the device delivers to one MicrophoneStream
MaxExits == 2        \* __exit__ calls on one MicrophoneStream
MaxEvents == 3       \* transcript events delivered to one widget between clears

\* The threads that call the FileManager, and the calls they make.
MaxFThreads == 2
MaxFmCalls == 3

\* The clicks on CameraApp's capture button.
MaxClicks == 4

\* The calls made on the DIContainer.
MaxDiCalls == 4

\* The calls made on the CameraService, and the frames its timer delivers.
MaxCsCalls == 4
MaxCsFrames == 2

\* The calls made on the ConfigManager.
MaxCfCalls == 3

Workers == 1..MaxWorkers

\* ------------------------------------------------------- transcripts, regex
\* A transcript is a sequence of one-character strings.
T_hi == <<"h", "i">>
T_exit == <<"e", "x", "i", "t">>
T_exits == <<"e", "x", "i", "t", "s">>
T_okQuit == <<"o", "k", " ", "Q", "u", "I", "t">>
T_pad == <<" ", "h", "i", " ">>

NonWordChars == {" ", "-", ".", ","}

\* \w of the regex: letters, digits, underscore.
IsWordChar(c) == c \notin NonWordChars

\* re.I: comparison after case folding.
ToLower(c) ==
    CASE c = "E" -> "e" [] c = "X" -> "x" [] c = "I" -> "i" [] c = "T" -> "t"
      [] c = "Q" -> "q" [] c = "U" -> "u" [] OTHER -> c

WordAt(t, i) == i \in 1..Len(t) /\ IsWordChar(t[i])

\* \b between positions i-1 and i.
WordBoundary(t, i) == WordAt(t, i - 1) # WordAt(t, i)

ExitWords == {<<"e", "x", "i", "t">>, <<"q", "u", "i", "t">>}

MatchAt(t, i, w) ==
    /\ i + Len(w) - 1 <= Len(t)
    /\ \A j \in 1..Len(w) : ToLower(t[i + j - 1]) = w[j]
    /\ WordBoundary(t, i)
    /\ WordBoundary(t, i + Len(w))

\* Mutant of ExitSearch: the pattern without its word boundaries.
ExitSearch_NoBoundary(t) ==
    \E i \in 1..Len(t) : \E w \in ExitWords :
        /\ i + Len(w) - 1 <= Len(t)
        /\ \A j \in 1..Len(w) : ToLower(t[i + j - 1]) = w[j]

\* re.search(r"\b(exit|quit)\b", transcript, re.I)
ExitSearch(t) == \E i \in 1..Len(t) : \E w \in ExitWords : MatchAt(t, i, w)

\* ---------------------------------------------------------------- responses
\* A provider response: results, each with its ranked alternatives (the
\* transcripts) and its final flag.
Result(alts, fin) == [alternatives |-> alts, is_final |-> fin]
Response(rs) == [results |-> rs]

R_empty == Response(<<>>)
R_noalt == Response(<<Result(<<>>, TRUE)>>)
R_interimExit == Response(<<Result(<<T_exit, T_hi>>, FALSE)>>)
R_finalHi == Response(<<Result(<<T_hi, T_exit>>, TRUE), Result(<<T_exit>>, TRUE)>>)
R_finalExit == Response(<<Result(<<T_exit>>, TRUE)>>)
R_finalExits == Response(<<Result(<<T_exits>>, TRUE)>>)
R_finalOkQuit == Response(<<Result(<<T_okQuit>>, TRUE)>>)
R_finalPad == Response(<<Result(<<T_pad>>, TRUE)>>)
R_interimHi == Response(<<Result(<<T_hi>>, FALSE)>>)

SRResponses ==
    {R_empty, R_noalt, R_interimExit, R_finalHi, R_finalExit, R_finalExits,
     R_finalOkQuit}

SSResponses == {R_empty, R_noalt, R_interimHi, R_finalHi, R_finalPad}

\* str.strip(): leading and trailing whitespace removed.
RECURSIVE StripLeft(_)
StripLeft(t) == IF t # <<>> /\ Head(t) = " " THEN StripLeft(Tail(t)) ELSE t

RECURSIVE StripRight(_)
StripRight(t) ==
    IF t # <<>> /\ t[Len(t)] = " " THEN StripRight(SubSeq(t, 1, Len(t) - 1)) ELSE t

Strip(t) == StripRight(StripLeft(t))

\* f"[INTERIM] {transcript}"
InterimMarker == <<"[", "I", "N", "T", "E", "R", "I", "M", "]", " ">>
MarkInterim(t) == InterimMarker \o t

\* -------------------------------------------------------------------- state
VARIABLES
    sr_client,        \* SpeechRecognition.client is set (not None)
    sr_is_recording,  \* SpeechRecognition.is_recording
    sr_stream,        \* SpeechRecognition.stream: 0 (None) or the worker whose MicrophoneStream it is
    sr_main,          \* position of the control thread inside start_recording
    sr_nthreads,      \* recognition threads spawned so far
    sr_pc,            \* position of each recognition thread in _recognition_loop
    sr_closed,        \* MicrophoneStream.closed of each thread's stream
    sr_open,          \* the audio device handle of each thread's stream is open
    sr_cur,           \* the response a thread is processing
    sr_exc,           \* the exception in flight in a thread ("none" when none)
    sr_nresp,         \* responses delivered so far
    sr_got,           \* the responses with a transcript each thread has taken, in order
    sr_ncalls,        \* consumer calls made so far
    sr_last,          \* the last consumer call
    sr_log            \* the signals emitted so far, in order

sr_vars ==
    <<sr_client, sr_is_recording, sr_stream, sr_main, sr_nthreads, sr_pc,
      sr_closed, sr_open, sr_cur, sr_exc, sr_nresp, sr_got, sr_ncalls, sr_last, sr_log>>

VARIABLES
    ss_interim,       \* SpeechService.interim_results (configuration)
    ss_client,        \* SpeechService.client is set (not None)
    ss_audio,         \* SpeechService.audio is set (not None)
    ss_stream,        \* SpeechService.stream: 0 (None) or the id of a PyAudio stream
    ss_dev,           \* each PyAudio stream: "none" (not created), "open" or "closed"
    ss_nstreams,      \* streams opened (and recognition threads spawned) so far
    ss_is_recording,  \* SpeechService.is_recording
    ss_should_stop,   \* SpeechService.should_stop is set
    ss_queue,         \* SpeechService.audio_queue: chunks, each tagged with its stream
    ss_main,          \* position of the control thread inside start_recognition
    ss_pc,            \* position of each recognition thread in _recognition_worker
    ss_gen,           \* each thread's _audio_generator: "none", "live" or "ended"
    ss_cur,           \* the response a thread is processing
    ss_end,           \* how a thread left the exchange ("none" while it runs)
    ss_nresp,         \* responses delivered so far
    ss_got,           \* the responses with a transcript each thread has taken, in order
    ss_ncalls,        \* consumer calls made so far
    ss_last,          \* the last consumer call
    ss_ret,           \* what the last start_recognition returned
    ss_log            \* the signals emitted so far, in order

ss_vars ==
    <<ss_interim, ss_client, ss_audio, ss_stream, ss_dev, ss_nstreams, ss_is_recording,
      ss_should_stop, ss_queue, ss_main, ss_pc, ss_gen, ss_cur, ss_end, ss_nresp, ss_got,
      ss_ncalls, ss_last, ss_ret, ss_log>>

\* One MicrophoneStream object and the generator reading it.
VARIABLES
    ms_enter,         \* __enter__: "never" called, "ok", or "failed" (audio.open raised)
    ms_iface,         \* _audio_interface: "unset", "live" or "terminated"
    ms_audio_stream,  \* _audio_stream: "unset" (no such attribute), "open" or "closed"
    ms_closed,        \* MicrophoneStream.closed
    ms_buff,          \* MicrophoneStream._buff: frames (1, 2, ...) and the sentinel None (0)
    ms_nframes,       \* frames the device callback has delivered so far
    ms_gen,           \* generator(): "none" (not called), "head", "get" (in _buff.get) or "ended"
    ms_sent,          \* the requests the generator has yielded, each the frames it joined
    ms_stopreq,       \* stop_recording has set closed on this stream
    ms_cut,           \* frames delivered before the first stop or close request (-1: none yet)
    ms_nexit,         \* __exit__ calls made so far
    ms_raised,        \* what the last __exit__ raised ("none" when it returned)
    ms_released       \* how many times the device handle was closed

ms_vars ==
    <<ms_enter, ms_iface, ms_audio_stream, ms_closed, ms_buff, ms_nframes, ms_gen,
      ms_sent, ms_stopreq, ms_cut, ms_nexit, ms_raised, ms_released>>

\* The transcript display of SpeechRecognitionWidget (app/speech_widget.py).
VARIABLES
    aw_final,         \* final_transcript
    aw_current,       \* current_transcript
    aw_display,       \* the text of transcript_display
    aw_events         \* the transcript events delivered since the last clear

aw_vars == <<aw_final, aw_current, aw_display, aw_events>>

\* The transcript display of SpeechWidget (src/gui/speech_widget.py).
VARIABLES
    gw_text,          \* the text of transcription_text
    gw_checked,       \* interim_checkbox.isChecked()
    gw_events         \* the transcriptions delivered since the last clear

gw_vars == <<gw_text, gw_checked, gw_events>>

\* FileManager (src/utils/file_manager.py), called by the threads FThreads.
\* fm_lock: the holder of self._lock (0: free); fm_op: the method each thread
\* is in; fm_pc: its position; fm_parent: whether dirname(filepath) is
\* non-empty; fm_data: the type of the payload; fm_ok: what ensure_directory
\* returned to save_file; fm_ret: how the thread's last call ended;
\* fm_written: the save_file calls that wrote their file.
VARIABLES fm_lock, fm_op, fm_pc, fm_parent, fm_data, fm_ok, fm_ret, fm_written,
          fm_ncalls

fm_vars == <<fm_lock, fm_op, fm_pc, fm_parent, fm_data, fm_ok, fm_ret, fm_written,
             fm_ncalls>>

\* SpeechWidget's buttons (src/gui/speech_widget.py) over a SpeechService:
\* whether Start and Stop are enabled, and how many error_occurred signals of
\* recognition threads are queued for the GUI thread.
VARIABLES gb_start_enabled, gb_stop_enabled, gb_queued_errors

gb_vars == <<gb_start_enabled, gb_stop_enabled, gb_queued_errors>>

\* CameraApp (app/camera_app.py). ca_enabled: the capture button;
\* ca_af_checked: the 'AF before capture' checkbox; ca_state: self.state;
\* ca_jobs: the jobs picam2 has been given and not finished; ca_done: the
\* done_signal deliveries queued for the GUI thread, each with its job;
\* ca_log: what has happened, in order; ca_nclicks: the clicks made.
VARIABLES ca_enabled, ca_af_checked, ca_state, ca_jobs, ca_done, ca_log, ca_nclicks

ca_vars == <<ca_enabled, ca_af_checked, ca_state, ca_jobs, ca_done, ca_log, ca_nclicks>>

\* DIContainer (src/core/container.py). di_factories: the keys of _factories;
\* di_singletons: _singletons, key to object (0: no entry); di_nobjs: the
\* objects made so far, numbered in order; di_made, di_got: for each key, the
\* constructor calls get has made and the objects get has returned since the
\* key was last registered or the container cleared; di_last: the last call;
\* di_ncalls: the calls made.
VARIABLES di_factories, di_singletons, di_nobjs, di_made, di_got, di_last, di_ncalls

di_vars == <<di_factories, di_singletons, di_nobjs, di_made, di_got, di_last, di_ncalls>>

\* CameraService (src/camera/camera_service.py). cs_cap: self.cap holds a
\* capture handle; cs_is_initialized, cs_is_capturing: the flags;
\* cs_timer_active: capture_timer runs; cs_timer_starts: the calls of
\* capture_timer.start; cs_frames: the frame_captured signals emitted;
\* cs_last: the last call, whether is_capturing held when it was made, and
\* what it returned; cs_ncalls: the calls made.
VARIABLES cs_cap, cs_is_initialized, cs_is_capturing, cs_timer_active, cs_timer_starts,
          cs_frames, cs_last, cs_ncalls

cs_vars == <<cs_cap, cs_is_initialized, cs_is_capturing, cs_timer_active, cs_timer_starts,
             cs_frames, cs_last, cs_ncalls>>

\* ConfigManager (src/core/config.py). cf_config: self._config, for each key
\* its entry; cf_set: the key paths set has stored, ever; cf_last: the last
\* call, with what it returned or whether it raised; cf_ncalls: the calls
\* made.
VARIABLES cf_config, cf_set, cf_last, cf_ncalls

cf_vars == <<cf_config, cf_set, cf_last, cf_ncalls>>

\* The object this run exercises: "sr", "ss", "ms", "aw", "gw", "fm", "gb",
\* "ca", "di", "cs" or "cf".
VARIABLE obj

vars == <<obj, sr_vars, ss_vars, ms_vars, aw_vars, gw_vars, fm_vars, gb_vars, ca_vars,
        di_vars, cs_vars, cf_vars>>

\* An emitted signal: its kind, the thread that emitted it (0: the control
\* thread), the session it belongs to, and the payload of a transcript.
Ev(k, by, gen, t, f) == [k |-> k, by |-> by, gen |-> gen, t |-> t, f |-> f]

\* The object after __init__: _setup_client has set the client, or failed.
SRInit(clients) ==
    /\ sr_client \in clients
    /\ sr_is_recording = FALSE
    /\ sr_stream = 0
    /\ sr_main = "idle"
    /\ sr_nthreads = 0
    /\ sr_pc = [w \in Workers |-> "unborn"]
    /\ sr_closed = [w \in Workers |-> TRUE]
    /\ sr_open = [w \in Workers |-> FALSE]
    /\ sr_cur = [w \in Workers |-> R_empty]
    /\ sr_exc = [w \in Workers |-> "none"]
    /\ sr_nresp = 0
    /\ sr_got = [w \in Workers |-> <<>>]
    /\ sr_ncalls = 0
    /\ sr_last = "none"
    /\ sr_log = <<>>

\* ------------------------------------------------- SpeechRecognition: calls
\* Mutant of SR_StartRecording: the is_recording test of line 100 dropped.
SR_StartRecording_NoRecordingTest ==
    /\ sr_main = "idle"
    /\ sr_ncalls < MaxCalls
    /\ sr_ncalls' = sr_ncalls + 1
    /\ sr_last' = "start"
    /\ IF ~sr_client
       THEN UNCHANGED <<sr_client, sr_is_recording, sr_stream, sr_main, sr_nthreads,
                        sr_pc, sr_closed, sr_open, sr_cur, sr_exc, sr_nresp, sr_got, sr_log>>
       ELSE /\ sr_nthreads < MaxWorkers
            /\ sr_is_recording' = TRUE
            /\ sr_nthreads' = sr_nthreads + 1
            /\ sr_pc' = [sr_pc EXCEPT ![sr_nthreads + 1] = "spawned"]
            /\ sr_main' = "emit_started"
            /\ UNCHANGED <<sr_client, sr_stream, sr_closed, sr_open, sr_cur, sr_exc,
                           sr_nresp, sr_got, sr_log>>

\* start_recording, up to and including the thread start.
SR_StartRecording ==
    /\ sr_main = "idle"
    /\ sr_ncalls < MaxCalls
    /\ sr_ncalls' = sr_ncalls + 1
    /\ sr_last' = "start"
    /\ IF sr_is_recording \/ ~sr_client
       THEN UNCHANGED <<sr_client, sr_is_recording, sr_stream, sr_main, sr_nthreads,
                        sr_pc, sr_closed, sr_open, sr_cur, sr_exc, sr_nresp, sr_got, sr_log>>
       ELSE /\ sr_nthreads < MaxWorkers
            /\ sr_is_recording' = TRUE
            /\ sr_nthreads' = sr_nthreads + 1
            /\ sr_pc' = [sr_pc EXCEPT ![sr_nthreads + 1] = "spawned"]
            /\ sr_main' = "emit_started"
            /\ UNCHANGED <<sr_client, sr_stream, sr_closed, sr_open, sr_cur, sr_exc,
                           sr_nresp, sr_got, sr_log>>

\* start_recording, its last statement: recording_started.emit().
SR_StartEmit ==
    /\ sr_main = "emit_started"
    /\ sr_main' = "idle"
    /\ sr_log' = Append(sr_log, Ev("recording_started", 0, sr_nthreads, <<>>, FALSE))
    /\ UNCHANGED <<sr_client, sr_is_recording, sr_stream, sr_nthreads, sr_pc, sr_closed,
                   sr_open, sr_cur, sr_exc, sr_nresp, sr_got, sr_ncalls, sr_last>>

\* The body of stop_recording, run by thread `by` (0: the control thread) and
\* counted for session `gen` (0: no session is recording).
SR_StopBody(by, gen) ==
    /\ sr_is_recording' = FALSE
    /\ sr_closed' = IF sr_stream # 0 THEN [sr_closed EXCEPT ![sr_stream] = TRUE]
                    ELSE sr_closed
    /\ sr_log' = Append(sr_log, Ev("recording_stopped", by, gen, <<>>, FALSE))

SR_StopRecording ==
    /\ sr_main = "idle"
    /\ sr_ncalls < MaxCalls
    /\ sr_ncalls' = sr_ncalls + 1
    /\ sr_last' = "stop"
    /\ SR_StopBody(0, IF sr_is_recording THEN sr_nthreads ELSE 0)
    /\ UNCHANGED <<sr_client, sr_stream, sr_main, sr_nthreads, sr_pc, sr_open, sr_cur,
                   sr_exc, sr_nresp, sr_got>>

\* ------------------------------------- SpeechRecognition: _recognition_loop
SR_Frame(w) == UNCHANGED <<sr_client, sr_main, sr_nthreads, sr_ncalls, sr_last>>

\* with MicrophoneStream(RATE, CHUNK) as stream: __enter__ opens the device,
\* or the driver raises and the block is never entered.
SR_Enter(w) ==
    /\ sr_pc[w] = "spawned"
    /\ \/ /\ sr_open' = [sr_open EXCEPT ![w] = TRUE]
          /\ sr_closed' = [sr_closed EXCEPT ![w] = FALSE]
          /\ sr_pc' = [sr_pc EXCEPT ![w] = "entered"]
          /\ UNCHANGED sr_exc
       \/ /\ sr_exc' = [sr_exc EXCEPT ![w] = "open"]
          /\ sr_pc' = [sr_pc EXCEPT ![w] = "except"]
          /\ UNCHANGED <<sr_open, sr_closed>>
    /\ SR_Frame(w)
    /\ UNCHANGED <<sr_is_recording, sr_stream, sr_cur, sr_nresp, sr_got, sr_log>>

\* self.stream = stream
SR_Assign(w) ==
    /\ sr_pc[w] = "entered"
    /\ sr_stream' = w
    /\ sr_pc' = [sr_pc EXCEPT ![w] = "call"]
    /\ SR_Frame(w)
    /\ UNCHANGED <<sr_is_recording, sr_closed, sr_open, sr_cur, sr_exc, sr_nresp, sr_got, sr_log>>

\* responses = self.client.streaming_recognize(streaming_config, requests)
SR_Call(w) ==
    /\ sr_pc[w] = "call"
    /\ \/ /\ sr_pc' = [sr_pc EXCEPT ![w] = "next"]
          /\ UNCHANGED sr_exc
       \/ /\ sr_exc' = [sr_exc EXCEPT ![w] = "call"]
          /\ sr_pc' = [sr_pc EXCEPT ![w] = "exit"]
    /\ SR_Frame(w)
    /\ UNCHANGED <<sr_is_recording, sr_stream, sr_closed, sr_open, sr_cur, sr_nresp, sr_got, sr_log>>

\* _process_responses, one turn of `for response in responses` up to the
\* emit: the provider yields a response, ends the stream, or raises.
SR_Next(w) ==
    /\ sr_pc[w] = "next"
    /\ \/ /\ sr_nresp < MaxResponses
          /\ sr_nresp' = sr_nresp + 1
          /\ \E r \in SRResponses :
                IF ~sr_is_recording
                THEN /\ sr_pc' = [sr_pc EXCEPT ![w] = "exit"]
                     /\ UNCHANGED <<sr_cur, sr_got>>
                ELSE IF r.results = <<>> \/ r.results[1].alternatives = <<>>
                THEN UNCHANGED <<sr_pc, sr_cur, sr_got>>
                ELSE /\ sr_cur' = [sr_cur EXCEPT ![w] = r]
                     /\ sr_got' = [sr_got EXCEPT ![w] = Append(@, r)]
                     /\ sr_pc' = [sr_pc EXCEPT ![w] = "emit"]
          /\ UNCHANGED sr_exc
       \/ /\ sr_pc' = [sr_pc EXCEPT ![w] = "exit"]
          /\ UNCHANGED <<sr_exc, sr_cur, sr_nresp, sr_got>>
       \/ /\ sr_exc' = [sr_exc EXCEPT ![w] = "iter"]
          /\ sr_pc' = [sr_pc EXCEPT ![w] = "exit"]
          /\ UNCHANGED <<sr_cur, sr_nresp, sr_got>>
    /\ SR_Frame(w)
    /\ UNCHANGED <<sr_is_recording, sr_stream, sr_closed, sr_open, sr_log>>

\* Mutant of SR_Transcript: the lowest-ranked alternative is taken.
SR_Transcript_LastAlternative(r) ==
    r.results[1].alternatives[Len(r.results[1].alternatives)]

\* transcript = result.alternatives[0].transcript; is_final = result.is_final
SR_Transcript(r) == r.results[1].alternatives[1]
SR_IsFinal(r) == r.results[1].is_final

\* if is_final and re.search(r"\b(exit|quit)\b", transcript, re.I)
SR_IsExitPhrase(r) == SR_IsFinal(r) /\ ExitSearch(SR_Transcript(r))

\* Mutant of SR_Emit: the signal is delivered ahead of the one emitted last.
SR_Emit_BeforeLast(w) ==
    /\ sr_pc[w] = "emit"
    /\ LET e == Ev("transcript_updated", w, w,
                   SR_Transcript(sr_cur[w]), SR_IsFinal(sr_cur[w]))
           n == Len(sr_log)
       IN  sr_log' = IF n = 0 THEN <<e>>
                     ELSE SubSeq(sr_log, 1, n - 1) \o <<e, sr_log[n]>>
    /\ sr_pc' = [sr_pc EXCEPT ![w] = IF SR_IsExitPhrase(sr_cur[w]) THEN "exit_stop"
                                     ELSE "next"]
    /\ sr_cur' = [sr_cur EXCEPT ![w] = R_empty]
    /\ SR_Frame(w)
    /\ UNCHANGED <<sr_is_recording, sr_stream, sr_closed, sr_open, sr_exc, sr_nresp, sr_got>>

\* self.transcript_updated.emit(transcript, is_final), then the exit test.
SR_Emit(w) ==
    /\ sr_pc[w] = "emit"
    /\ sr_log' = Append(sr_log, Ev("transcript_updated", w, w,
                                   SR_Transcript(sr_cur[w]), SR_IsFinal(sr_cur[w])))
    /\ sr_pc' = [sr_pc EXCEPT ![w] = IF SR_IsExitPhrase(sr_cur[w]) THEN "exit_stop"
                                     ELSE "next"]
    /\ sr_cur' = [sr_cur EXCEPT ![w] = R_empty]
    /\ SR_Frame(w)
    /\ UNCHANGED <<sr_is_recording, sr_stream, sr_closed, sr_open, sr_exc, sr_nresp, sr_got>>

\* self.stop_recording(); break
SR_ExitStop(w) ==
    /\ sr_pc[w] = "exit_stop"
    /\ SR_StopBody(w, w)
    /\ sr_pc' = [sr_pc EXCEPT ![w] = "exit"]
    /\ SR_Frame(w)
    /\ UNCHANGED <<sr_stream, sr_open, sr_cur, sr_exc, sr_nresp, sr_got>>

\* MicrophoneStream.__exit__, on leaving the with block normally or by an
\* exception.
SR_Exit(w) ==
    /\ sr_pc[w] = "exit"
    /\ sr_open' = [sr_open EXCEPT ![w] = FALSE]
    /\ sr_closed' = [sr_closed EXCEPT ![w] = TRUE]
    /\ sr_pc' = [sr_pc EXCEPT ![w] = IF sr_exc[w] = "none" THEN "finally" ELSE "except"]
    /\ SR_Frame(w)
    /\ UNCHANGED <<sr_is_recording, sr_stream, sr_cur, sr_exc, sr_nresp, sr_got, sr_log>>

\* except Exception as e: self.error_occurred.emit(...)
SR_Except(w) ==
    /\ sr_pc[w] = "except"
    /\ sr_log' = Append(sr_log, Ev("error_occurred", w, w, <<>>, FALSE))
    /\ sr_pc' = [sr_pc EXCEPT ![w] = "finally"]
    /\ SR_Frame(w)
    /\ UNCHANGED <<sr_is_recording, sr_stream, sr_closed, sr_open, sr_cur, sr_exc, sr_nresp, sr_got>>

\* Mutant of SR_Finally: recording_stopped emitted only if is_recording was
\* still true.
SR_Finally_EmitIfRecording(w) ==
    /\ sr_pc[w] = "finally"
    /\ sr_is_recording' = FALSE
    /\ sr_log' = IF sr_is_recording
                 THEN Append(sr_log, Ev("recording_stopped", w, w, <<>>, FALSE))
                 ELSE sr_log
    /\ sr_pc' = [sr_pc EXCEPT ![w] = "done"]
    /\ SR_Frame(w)
    /\ UNCHANGED <<sr_stream, sr_closed, sr_open, sr_cur, sr_exc, sr_nresp, sr_got>>

\* finally: self.is_recording = False; self.recording_stopped.emit()
SR_Finally(w) ==
    /\ sr_pc[w] = "finally"
    /\ sr_is_recording' = FALSE
    /\ sr_log' = Append(sr_log, Ev("recording_stopped", w, w, <<>>, FALSE))
    /\ sr_pc' = [sr_pc EXCEPT ![w] = "done"]
    /\ SR_Frame(w)
    /\ UNCHANGED <<sr_stream, sr_closed, sr_open, sr_cur, sr_exc, sr_nresp, sr_got>>

\* ------------------------------------------------------------ SpeechService
\* The object after __init__, with its interim_results configuration.
SSInit(interims) ==
    /\ ss_interim \in interims
    /\ ss_client = FALSE
    /\ ss_audio = FALSE
    /\ ss_stream = 0
    /\ ss_dev = [s \in Workers |-> "none"]
    /\ ss_nstreams = 0
    /\ ss_is_recording = FALSE
    /\ ss_should_stop = FALSE
    /\ ss_queue = <<>>
    /\ ss_main = "idle"
    /\ ss_pc = [w \in Workers |-> "unborn"]
    /\ ss_gen = [w \in Workers |-> "none"]
    /\ ss_cur = [w \in Workers |-> R_empty]
    /\ ss_end = [w \in Workers |-> "none"]
    /\ ss_nresp = 0
    /\ ss_got = [w \in Workers |-> <<>>]
    /\ ss_ncalls = 0
    /\ ss_last = "none"
    /\ ss_ret = FALSE
    /\ ss_log = <<>>

\* The session a control-thread signal belongs to: the one recording, if any.
SS_Gen == IF ss_is_recording THEN ss_nstreams ELSE 0

\* The state changes of stop_recognition (lines 135-149), appended to `log`.
SS_StopEffects(log) ==
    /\ ss_should_stop' = TRUE
    /\ ss_is_recording' = FALSE
    /\ ss_dev' = IF ss_stream # 0 THEN [ss_dev EXCEPT ![ss_stream] = "closed"] ELSE ss_dev
    /\ ss_stream' = 0
    /\ ss_log' = Append(log, Ev("recording_status_changed", 0, SS_Gen, <<>>, FALSE))

\* stop_recognition: the join waits at most 2 s and changes no state.
SS_StopRecognition ==
    /\ ss_main = "idle"
    /\ ss_ncalls < MaxCalls
    /\ ss_ncalls' = ss_ncalls + 1
    /\ ss_last' = "stop"
    /\ SS_StopEffects(ss_log)
    /\ UNCHANGED <<ss_interim, ss_client, ss_audio, ss_nstreams, ss_queue, ss_main, ss_pc,
                   ss_gen, ss_cur, ss_end, ss_nresp, ss_got, ss_ret>>

\* start_recognition when initialize() fails: error_occurred, cleanup(), False.
SS_StartInitFails ==
    /\ ~ss_client
    /\ SS_StopEffects(Append(ss_log, Ev("error_occurred", 0, SS_Gen, <<>>, FALSE)))
    /\ ss_audio' = FALSE
    /\ ss_client' = FALSE
    /\ ss_ret' = FALSE
    /\ UNCHANGED <<ss_nstreams, ss_queue, ss_main, ss_pc, ss_gen>>

\* start_recognition while recording: "already running", True.
SS_StartAlreadyRunning ==
    /\ ss_client
    /\ ss_is_recording
    /\ ss_ret' = TRUE
    /\ UNCHANGED <<ss_client, ss_audio, ss_stream, ss_dev, ss_nstreams, ss_is_recording,
                   ss_should_stop, ss_queue, ss_main, ss_pc, ss_gen, ss_log>>

\* Mutant of SS_StartOpen: is_recording set before the stream is opened and
\* not reset when the open raises.
SS_StartOpen_FlagBeforeOpen ==
    /\ ~ss_is_recording
    /\ ss_client' = TRUE
    /\ ss_audio' = TRUE
    /\ ss_should_stop' = FALSE
    /\ ss_queue' = <<>>
    /\ ss_is_recording' = TRUE
    /\ \/ /\ ss_log' = Append(ss_log, Ev("error_occurred", 0, 0, <<>>, FALSE))
          /\ ss_ret' = FALSE
          /\ UNCHANGED <<ss_stream, ss_dev, ss_nstreams, ss_main, ss_pc, ss_gen>>
       \/ /\ ss_nstreams < MaxWorkers
          /\ ss_nstreams' = ss_nstreams + 1
          /\ ss_dev' = [ss_dev EXCEPT ![ss_nstreams + 1] = "open"]
          /\ ss_stream' = ss_nstreams + 1
          /\ ss_pc' = [ss_pc EXCEPT ![ss_nstreams + 1] = "spawned"]
          /\ ss_main' = "start_stream"
          /\ UNCHANGED <<ss_gen, ss_ret, ss_log>>

\* start_recognition, lines 98-117: state cleared, the stream opened (or the
\* driver raises), the recognition thread started.
SS_StartOpen ==
    /\ ~ss_is_recording
    /\ ss_client' = TRUE
    /\ ss_audio' = TRUE
    /\ ss_should_stop' = FALSE
    /\ ss_queue' = <<>>
    /\ \/ /\ ss_log' = Append(ss_log, Ev("error_occurred", 0, 0, <<>>, FALSE))
          /\ ss_ret' = FALSE
          /\ UNCHANGED <<ss_stream, ss_dev, ss_nstreams, ss_main, ss_pc, ss_gen>>
       \/ /\ ss_nstreams < MaxWorkers
          /\ ss_nstreams' = ss_nstreams + 1
          /\ ss_dev' = [ss_dev EXCEPT ![ss_nstreams + 1] = "open"]
          /\ ss_stream' = ss_nstreams + 1
          /\ ss_pc' = [ss_pc EXCEPT ![ss_nstreams + 1] = "spawned"]
          /\ ss_main' = "start_stream"
          /\ UNCHANGED <<ss_gen, ss_ret, ss_log>>
    /\ UNCHANGED ss_is_recording

\* start_recognition, up to and including the thread start.
SS_StartRecognition ==
    /\ ss_main = "idle"
    /\ ss_ncalls < MaxCalls
    /\ ss_ncalls' = ss_ncalls + 1
    /\ ss_last' = "start"
    /\ \/ SS_StartInitFails
       \/ SS_StartAlreadyRunning
       \/ SS_StartOpen
    /\ UNCHANGED <<ss_interim, ss_cur, ss_end, ss_nresp, ss_got>>

\* start_recognition, lines 119-130: start_stream(), is_recording = True,
\* recording_status_changed(True); or start_stream() raises.
SS_StartStream ==
    /\ ss_main = "start_stream"
    /\ ss_main' = "idle"
    /\ \/ /\ ss_is_recording' = TRUE
          /\ ss_log' = Append(ss_log, Ev("recording_status_changed", 0, ss_nstreams, <<>>, TRUE))
          /\ ss_ret' = TRUE
       \/ /\ ss_log' = Append(ss_log, Ev("error_occurred", 0, ss_nstreams, <<>>, FALSE))
          /\ ss_ret' = FALSE
          /\ UNCHANGED ss_is_recording
    /\ UNCHANGED <<ss_interim, ss_client, ss_audio, ss_stream, ss_dev, ss_nstreams,
                   ss_should_stop, ss_queue, ss_pc, ss_gen, ss_cur, ss_end, ss_nresp, ss_got,
                   ss_ncalls, ss_last>>

\* _audio_callback of an open stream.
SS_AudioCallback(s) ==
    /\ ss_dev[s] = "open"
    /\ ~ss_should_stop
    /\ Len(ss_queue) < MaxQueue
    /\ ss_queue' = Append(ss_queue, s)
    /\ UNCHANGED <<ss_interim, ss_client, ss_audio, ss_stream, ss_dev, ss_nstreams,
                   ss_is_recording, ss_should_stop, ss_main, ss_pc, ss_gen, ss_cur, ss_end,
                   ss_nresp, ss_got, ss_ncalls, ss_last, ss_ret, ss_log>>

\* _audio_generator, one turn of its loop, pulled by the streaming call.
SS_AudioGenerator(w) ==
    /\ ss_gen[w] = "live"
    /\ ss_pc[w] \in {"next", "emit"}
    /\ IF ss_should_stop
       THEN /\ ss_gen' = [ss_gen EXCEPT ![w] = "ended"]
            /\ UNCHANGED ss_queue
       ELSE /\ ss_queue # <<>>
            /\ ss_queue' = Tail(ss_queue)
            /\ UNCHANGED ss_gen
    /\ UNCHANGED <<ss_interim, ss_client, ss_audio, ss_stream, ss_dev, ss_nstreams,
                   ss_is_recording, ss_should_stop, ss_main, ss_pc, ss_cur, ss_end,
                   ss_nresp, ss_got, ss_ncalls, ss_last, ss_ret, ss_log>>

SS_Frame(w) ==
    UNCHANGED <<ss_interim, ss_client, ss_audio, ss_stream, ss_dev, ss_nstreams,
                ss_is_recording, ss_should_stop, ss_queue, ss_main, ss_ncalls, ss_last,
                ss_ret>>

\* _recognition_worker, lines 182-205: the generator, the streaming call.
SS_WorkerCall(w) ==
    /\ ss_pc[w] = "spawned"
    /\ \/ /\ ss_pc' = [ss_pc EXCEPT ![w] = "next"]
          /\ ss_gen' = [ss_gen EXCEPT ![w] = "live"]
          /\ UNCHANGED <<ss_end, ss_log>>
       \/ /\ ss_pc' = [ss_pc EXCEPT ![w] = "done"]
          /\ ss_end' = [ss_end EXCEPT ![w] = "call_raised"]
          /\ ss_log' = Append(ss_log, Ev("error_occurred", w, w, <<>>, FALSE))
          /\ UNCHANGED ss_gen
    /\ SS_Frame(w)
    /\ UNCHANGED <<ss_cur, ss_nresp, ss_got>>

\* _process_responses, one turn of `for response in responses` up to the
\* emit: the provider yields a response, ends the stream, or raises.
SS_WorkerNext(w) ==
    /\ ss_pc[w] = "next"
    /\ \/ /\ ss_nresp < MaxResponses
          /\ ss_nresp' = ss_nresp + 1
          /\ \E r \in SSResponses :
                IF ss_should_stop
                THEN /\ ss_pc' = [ss_pc EXCEPT ![w] = "done"]
                     /\ ss_end' = [ss_end EXCEPT ![w] = "stopped"]
                     /\ UNCHANGED <<ss_cur, ss_got>>
                ELSE IF r.results = <<>> \/ r.results[1].alternatives = <<>>
                THEN UNCHANGED <<ss_pc, ss_cur, ss_end, ss_got>>
                ELSE /\ ss_cur' = [ss_cur EXCEPT ![w] = r]
                     /\ ss_got' = [ss_got EXCEPT ![w] = Append(@, r)]
                     /\ ss_pc' = [ss_pc EXCEPT ![w] = "emit"]
                     /\ UNCHANGED ss_end
          /\ UNCHANGED ss_log
       \/ /\ ss_pc' = [ss_pc EXCEPT ![w] = "done"]
          /\ ss_end' = [ss_end EXCEPT ![w] = "stream_ended"]
          /\ UNCHANGED <<ss_cur, ss_nresp, ss_got, ss_log>>
       \/ /\ ss_pc' = [ss_pc EXCEPT ![w] = "done"]
          /\ ss_end' = [ss_end EXCEPT ![w] = "iter_raised"]
          /\ ss_log' = IF ss_should_stop THEN ss_log
                       ELSE Append(ss_log, Ev("error_occurred", w, w, <<>>, FALSE))
          /\ UNCHANGED <<ss_cur, ss_nresp, ss_got>>
    /\ SS_Frame(w)
    /\ UNCHANGED ss_gen

\* Mutant of SS_WorkerEmit: an interim result is emitted whatever
\* interim_results says.
SS_WorkerEmit_InterimAlways(w) ==
    /\ ss_pc[w] = "emit"
    /\ LET t == ss_cur[w].results[1].alternatives[1]
           fin == ss_cur[w].results[1].is_final
       IN  ss_log' = IF fin
                     THEN Append(ss_log, Ev("transcription_received", w, w, Strip(t), TRUE))
                     ELSE Append(ss_log, Ev("transcription_received", w, w,
                                            MarkInterim(t), FALSE))
    /\ ss_pc' = [ss_pc EXCEPT ![w] = "next"]
    /\ ss_cur' = [ss_cur EXCEPT ![w] = R_empty]
    /\ SS_Frame(w)
    /\ UNCHANGED <<ss_gen, ss_end, ss_nresp, ss_got>>

\* _process_responses, lines 229-235: the transcription_received emit.
SS_WorkerEmit(w) ==
    /\ ss_pc[w] = "emit"
    /\ LET t == ss_cur[w].results[1].alternatives[1]
           fin == ss_cur[w].results[1].is_final
       IN  ss_log' = IF fin
                     THEN Append(ss_log, Ev("transcription_received", w, w, Strip(t), TRUE))
                     ELSE IF ss_interim
                     THEN Append(ss_log, Ev("transcription_received", w, w,
                                            MarkInterim(t), FALSE))
                     ELSE ss_log
    /\ ss_pc' = [ss_pc EXCEPT ![w] = "next"]
    /\ ss_cur' = [ss_cur EXCEPT ![w] = R_empty]
    /\ SS_Frame(w)
    /\ UNCHANGED <<ss_gen, ss_end, ss_nresp, ss_got>>

\* ---------------------------------------------------------- MicrophoneStream
\* The sentinel __exit__ puts into _buff.
None == 0

\* The object after __init__.
MSInit ==
    /\ ms_enter = "never"
    /\ ms_iface = "unset"
    /\ ms_audio_stream = "unset"
    /\ ms_closed = TRUE
    /\ ms_buff = <<>>
    /\ ms_nframes = 0
    /\ ms_gen = "none"
    /\ ms_sent = <<>>
    /\ ms_stopreq = FALSE
    /\ ms_cut = -1
    /\ ms_nexit = 0
    /\ ms_raised = "none"
    /\ ms_released = 0

\* __enter__: PyAudio(), then open(...) returns the stream or raises before
\* _audio_stream is assigned.
MS_Enter ==
    /\ ms_enter = "never"
    /\ ms_iface' = "live"
    /\ \/ /\ ms_enter' = "ok"
          /\ ms_audio_stream' = "open"
          /\ ms_closed' = FALSE
       \/ /\ ms_enter' = "failed"
          /\ UNCHANGED <<ms_audio_stream, ms_closed>>
    /\ UNCHANGED <<ms_buff, ms_nframes, ms_gen, ms_sent, ms_stopreq, ms_cut, ms_nexit,
                   ms_raised, ms_released>>

\* _fill_buffer, the callback of the open device.
MS_FillBuffer ==
    /\ ms_audio_stream = "open"
    /\ ms_nframes < MaxFrames
    /\ ms_nframes' = ms_nframes + 1
    /\ ms_buff' = Append(ms_buff, ms_nframes + 1)
    /\ UNCHANGED <<ms_enter, ms_iface, ms_audio_stream, ms_closed, ms_gen, ms_sent,
                   ms_stopreq, ms_cut, ms_nexit, ms_raised, ms_released>>

\* stream.generator() called inside the with block; the streaming call starts
\* to pull it.
MS_GenStart ==
    /\ ms_enter = "ok"
    /\ ms_gen = "none"
    /\ ms_gen' = "head"
    /\ UNCHANGED <<ms_enter, ms_iface, ms_audio_stream, ms_closed, ms_buff, ms_nframes,
                   ms_sent, ms_stopreq, ms_cut, ms_nexit, ms_raised, ms_released>>

\* generator: while not self.closed
MS_GenHead ==
    /\ ms_gen = "head"
    /\ ms_gen' = IF ms_closed THEN "ended" ELSE "get"
    /\ UNCHANGED <<ms_enter, ms_iface, ms_audio_stream, ms_closed, ms_buff, ms_nframes,
                   ms_sent, ms_stopreq, ms_cut, ms_nexit, ms_raised, ms_released>>

\* The position of the first sentinel in q, 0 when it holds none.
FirstNone(q) ==
    IF \E i \in 1..Len(q) : q[i] = None
    THEN CHOOSE i \in 1..Len(q) : q[i] = None /\ \A j \in 1..(i - 1) : q[j] # None
    ELSE 0

Reverse(q) == [i \in 1..Len(q) |-> q[Len(q) + 1 - i]]

\* Mutant of MS_GenGet: the drained frames joined newest first.
MS_GenGet_NewestFirst ==
    /\ ms_gen = "get"
    /\ ms_buff # <<>>
    /\ LET k == FirstNone(ms_buff)
       IN  IF k = 0
           THEN /\ ms_sent' = Append(ms_sent, Reverse(ms_buff))
                /\ ms_buff' = <<>>
                /\ ms_gen' = "head"
           ELSE /\ ms_buff' = SubSeq(ms_buff, k + 1, Len(ms_buff))
                /\ ms_gen' = "ended"
                /\ UNCHANGED ms_sent
    /\ UNCHANGED <<ms_enter, ms_iface, ms_audio_stream, ms_closed, ms_nframes, ms_stopreq,
                   ms_cut, ms_nexit, ms_raised, ms_released>>

\* generator, lines 50-64: the blocking get, the non-blocking gets that drain
\* what else is buffered, and the yield of the joined frames; a sentinel met
\* on the way ends the generator and what was collected is not yielded.
MS_GenGet ==
    /\ ms_gen = "get"
    /\ ms_buff # <<>>
    /\ LET k == FirstNone(ms_buff)
       IN  IF k = 0
           THEN /\ ms_sent' = Append(ms_sent, ms_buff)
                /\ ms_buff' = <<>>
                /\ ms_gen' = "head"
           ELSE /\ ms_buff' = SubSeq(ms_buff, k + 1, Len(ms_buff))
                /\ ms_gen' = "ended"
                /\ UNCHANGED ms_sent
    /\ UNCHANGED <<ms_enter, ms_iface, ms_audio_stream, ms_closed, ms_nframes, ms_stopreq,
                   ms_cut, ms_nexit, ms_raised, ms_released>>

\* SpeechRecognition.stop_recording, line 112-113: self.stream.closed = True.
MS_StopSetsClosed ==
    /\ ms_enter = "ok"
    /\ ~ms_stopreq
    /\ ms_stopreq' = TRUE
    /\ ms_closed' = TRUE
    /\ ms_cut' = IF ms_cut = -1 THEN ms_nframes ELSE ms_cut
    /\ UNCHANGED <<ms_enter, ms_iface, ms_audio_stream, ms_buff, ms_nframes, ms_gen,
                   ms_sent, ms_nexit, ms_raised, ms_released>>

\* __exit__: stop_stream(), close(), closed = True, the sentinel, terminate().
\* Without the _audio_stream attribute line 38 raises AttributeError; on a
\* stream already closed stop_stream() raises OSError.
MS_Exit ==
    /\ ms_enter # "never"
    /\ ms_nexit < MaxExits
    /\ ms_nexit' = ms_nexit + 1
    /\ ms_cut' = IF ms_cut = -1 THEN ms_nframes ELSE ms_cut
    /\ CASE ms_audio_stream = "unset" ->
              /\ ms_raised' = "AttributeError"
              /\ UNCHANGED <<ms_iface, ms_audio_stream, ms_closed, ms_buff, ms_released>>
         [] ms_audio_stream = "closed" ->
              /\ ms_raised' = "OSError"
              /\ UNCHANGED <<ms_iface, ms_audio_stream, ms_closed, ms_buff, ms_released>>
         [] ms_audio_stream = "open" ->
              /\ ms_raised' = "none"
              /\ ms_audio_stream' = "closed"
              /\ ms_released' = ms_released + 1
              /\ ms_closed' = TRUE
              /\ ms_buff' = Append(ms_buff, None)
              /\ ms_iface' = "terminated"
    /\ UNCHANGED <<ms_enter, ms_nframes, ms_gen, ms_sent, ms_stopreq>>

\* ----------------------------------------------------------- the consumers
WTranscripts == {T_hi, T_pad}

NewLine == <<"\n">>

\* The widgets after construction.
AWInit ==
    /\ aw_final = <<>>
    /\ aw_current = <<>>
    /\ aw_display = <<>>
    /\ aw_events = <<>>

GWInit ==
    /\ gw_text = <<>>
    /\ gw_checked = TRUE
    /\ gw_events = <<>>

\* SpeechRecognitionWidget._on_transcript_updated(transcript, is_final)
AW_OnTranscriptUpdated(t, fin) ==
    /\ Len(aw_events) < MaxEvents
    /\ aw_events' = Append(aw_events, [t |-> t, f |-> fin])
    /\ IF fin
       THEN /\ aw_final' = aw_final \o t \o NewLine
            /\ aw_current' = <<>>
            /\ aw_display' = aw_final'
       ELSE /\ aw_current' = t
            /\ aw_display' = aw_final \o <<"[">> \o t \o <<"]">>
            /\ UNCHANGED aw_final

\* SpeechRecognitionWidget._on_clear_clicked
AW_OnClearClicked ==
    /\ aw_events # <<>>
    /\ aw_display' = <<>>
    /\ aw_current' = <<>>
    /\ aw_final' = <<>>
    /\ aw_events' = <<>>

\* text.startswith("[INTERIM]")
InterimPrefix == SubSeq(InterimMarker, 1, 9)

StartsWith(t, p) == Len(t) >= Len(p) /\ SubSeq(t, 1, Len(p)) = p

\* f"[...] {text}"
Ellipsis == <<"[", ".", ".", ".", "]", " ">>

\* SpeechWidget.add_transcription(text): what it does to the display.
GW_AddTranscription(text) ==
    IF StartsWith(text, InterimPrefix)
    THEN IF ~gw_checked
         THEN UNCHANGED gw_text
         ELSE gw_text' = gw_text \o Ellipsis \o Strip(SubSeq(text, 9 + 1, Len(text)))
                                 \o NewLine
    ELSE gw_text' = gw_text \o text \o NewLine

\* The text SpeechService emits for a result with interim_results enabled.
SS_EmittedText(t, fin) == IF fin THEN Strip(t) ELSE MarkInterim(t)

\* transcription_received delivered to the widget's slot.
GW_Deliver(t, fin) ==
    /\ Len(gw_events) < MaxEvents
    /\ gw_events' = Append(gw_events, [t |-> SS_EmittedText(t, fin), f |-> fin])
    /\ GW_AddTranscription(SS_EmittedText(t, fin))
    /\ UNCHANGED gw_checked

\* SpeechWidget.clear_text
GW_ClearText ==
    /\ gw_events # <<>>
    /\ gw_text' = <<>>
    /\ gw_events' = <<>>
    /\ UNCHANGED gw_checked

\* The user clicks the "Show interim results" checkbox.
GW_ToggleInterim ==
    /\ gw_checked' = ~gw_checked
    /\ UNCHANGED <<gw_text, gw_events>>

\* ---------------------------------------------------------------- FileManager
FThreads == 1..MaxFThreads

DataTypes == {"str", "bytes", "other"}

\* The manager after __init__: _ensure_base_directories has returned and the
\* lock is free.
FMInit ==
    /\ fm_lock = 0
    /\ fm_op = [t \in FThreads |-> "none"]
    /\ fm_pc = [t \in FThreads |-> "idle"]
    /\ fm_parent = [t \in FThreads |-> FALSE]
    /\ fm_data = [t \in FThreads |-> "str"]
    /\ fm_ok = [t \in FThreads |-> TRUE]
    /\ fm_ret = [t \in FThreads |-> "none"]
    /\ fm_written = 0
    /\ fm_ncalls = 0

\* A thread calls save_file(data, filepath) and reaches `with self._lock`.
FM_SaveFile(t) ==
    /\ fm_pc[t] = "idle"
    /\ fm_ncalls < MaxFmCalls
    /\ fm_ncalls' = fm_ncalls + 1
    /\ \E parent \in BOOLEAN, d \in DataTypes :
          /\ fm_parent' = [fm_parent EXCEPT ![t] = parent]
          /\ fm_data' = [fm_data EXCEPT ![t] = d]
    /\ fm_op' = [fm_op EXCEPT ![t] = "save"]
    /\ fm_pc' = [fm_pc EXCEPT ![t] = "save_acquire"]
    /\ fm_ret' = [fm_ret EXCEPT ![t] = "none"]
    /\ UNCHANGED <<fm_lock, fm_ok, fm_written>>

\* save_file, `with self._lock`: threading.Lock is not reentrant, the thread
\* waits until the lock is free whoever holds it.
FM_SaveAcquire(t) ==
    /\ fm_pc[t] = "save_acquire"
    /\ fm_lock = 0
    /\ fm_lock' = t
    /\ fm_pc' = [fm_pc EXCEPT ![t] = "save_parent"]
    /\ UNCHANGED <<fm_op, fm_parent, fm_data, fm_ok, fm_ret, fm_written, fm_ncalls>>

\* parent_dir = os.path.dirname(filepath);
\* if parent_dir and not self.ensure_directory(parent_dir): the call of
\* ensure_directory, made with the lock held.
FM_SaveParent(t) ==
    /\ fm_pc[t] = "save_parent"
    /\ fm_pc' = [fm_pc EXCEPT ![t] = IF fm_parent[t] THEN "ensure_acquire"
                                     ELSE "save_type"]
    /\ UNCHANGED <<fm_lock, fm_op, fm_parent, fm_data, fm_ok, fm_ret, fm_written,
                   fm_ncalls>>

\* A thread calls ensure_directory(path) itself.
FM_EnsureDirectory(t) ==
    /\ fm_pc[t] = "idle"
    /\ fm_ncalls < MaxFmCalls
    /\ fm_ncalls' = fm_ncalls + 1
    /\ fm_op' = [fm_op EXCEPT ![t] = "ensure"]
    /\ fm_pc' = [fm_pc EXCEPT ![t] = "ensure_acquire"]
    /\ fm_ret' = [fm_ret EXCEPT ![t] = "none"]
    /\ UNCHANGED <<fm_lock, fm_parent, fm_data, fm_ok, fm_written>>

\* ensure_directory, `with self._lock`.
FM_EnsureAcquire(t) ==
    /\ fm_pc[t] = "ensure_acquire"
    /\ fm_lock = 0
    /\ fm_lock' = t
    /\ fm_pc' = [fm_pc EXCEPT ![t] = "ensure_mkdir"]
    /\ UNCHANGED <<fm_op, fm_parent, fm_data, fm_ok, fm_ret, fm_written, fm_ncalls>>

\* ensure_directory: mkdir succeeds or raises; the with block releases the
\* lock; the method returns True or False, to save_file when save_file called
\* it.
FM_EnsureMkdir(t) ==
    /\ fm_pc[t] = "ensure_mkdir"
    /\ fm_lock' = 0
    /\ \E ok \in BOOLEAN :
          IF fm_op[t] = "save"
          THEN /\ fm_ok' = [fm_ok EXCEPT ![t] = ok]
               /\ fm_pc' = [fm_pc EXCEPT ![t] = "save_type"]
               /\ UNCHANGED <<fm_op, fm_ret>>
          ELSE /\ fm_ret' = [fm_ret EXCEPT ![t] = IF ok THEN "True" ELSE "False"]
               /\ fm_pc' = [fm_pc EXCEPT ![t] = "idle"]
               /\ fm_op' = [fm_op EXCEPT ![t] = "none"]
               /\ UNCHANGED fm_ok
    /\ UNCHANGED <<fm_parent, fm_data, fm_written, fm_ncalls>>

\* save_file, lines 75-99: the parent directory could not be made, or the
\* payload is neither bytes nor str, or the write fails: the with block
\* releases the lock and FileOperationException is raised; otherwise the file
\* is written, the lock released and True returned.
FM_SaveWrite(t) ==
    /\ fm_pc[t] = "save_type"
    /\ fm_lock' = 0
    /\ \E written \in BOOLEAN :
          LET ok == /\ fm_parent[t] => fm_ok[t]
                    /\ fm_data[t] \in {"str", "bytes"}
                    /\ written
          IN  /\ fm_ret' = [fm_ret EXCEPT ![t] = IF ok THEN "True"
                                                 ELSE "FileOperationException"]
              /\ fm_written' = IF ok THEN fm_written + 1 ELSE fm_written
    /\ fm_pc' = [fm_pc EXCEPT ![t] = "idle"]
    /\ fm_op' = [fm_op EXCEPT ![t] = "none"]
    /\ UNCHANGED <<fm_parent, fm_data, fm_ok, fm_ncalls>>

\* ------------------------------------------------ SpeechWidget: the buttons
\* The buttons after setup_ui: Start enabled, Stop disabled.
GBInit ==
    /\ gb_start_enabled = TRUE
    /\ gb_stop_enabled = FALSE
    /\ gb_queued_errors = 0

\* The step appended error_occurred to the service's signals.
SS_ErrorEmitted ==
    \E i \in (Len(ss_log) + 1)..Len(ss_log') : ss_log'[i].k = "error_occurred"

\* The buttons after the part of start_recording that has run: handle_error,
\* called directly by an error_occurred emitted on the GUI thread, enables
\* Start and disables Stop; start_recognition returning True then disables
\* Start and enables Stop; returning False it changes no button.
GB_AfterStart ==
    /\ gb_start_enabled' =
          IF ss_main' = "idle" /\ ss_ret' THEN FALSE
          ELSE IF SS_ErrorEmitted THEN TRUE
          ELSE gb_start_enabled
    /\ gb_stop_enabled' =
          IF ss_main' = "idle" /\ ss_ret' THEN TRUE
          ELSE IF SS_ErrorEmitted THEN FALSE
          ELSE gb_stop_enabled
    /\ UNCHANGED gb_queued_errors

\* A click on Start: start_recording, up to the thread start inside
\* start_recognition.
GB_StartRecording ==
    /\ gb_start_enabled
    /\ SS_StartRecognition
    /\ GB_AfterStart

\* start_recording, the rest of start_recognition and the button updates.
GB_StartRecordingEnds ==
    /\ SS_StartStream
    /\ GB_AfterStart

\* A click on Stop: stop_recording.
GB_StopRecording ==
    /\ gb_stop_enabled
    /\ SS_StopRecognition
    /\ gb_start_enabled' = TRUE
    /\ gb_stop_enabled' = FALSE
    /\ UNCHANGED gb_queued_errors

\* A step of a recognition thread: its error_occurred is queued for the GUI
\* thread.
GB_Queue ==
    /\ gb_queued_errors' = IF SS_ErrorEmitted THEN gb_queued_errors + 1
                           ELSE gb_queued_errors
    /\ UNCHANGED <<gb_start_enabled, gb_stop_enabled>>

GB_WorkerCall(w) == SS_WorkerCall(w) /\ GB_Queue
GB_WorkerNext(w) == SS_WorkerNext(w) /\ GB_Queue
GB_WorkerEmit(w) == SS_WorkerEmit(w) /\ GB_Queue

\* handle_error, run by the GUI thread's event loop for a queued signal.
GB_HandleError ==
    /\ ss_main = "idle"
    /\ gb_queued_errors > 0
    /\ gb_queued_errors' = gb_queued_errors - 1
    /\ gb_start_enabled' = TRUE
    /\ gb_stop_enabled' = FALSE
    /\ UNCHANGED ss_vars

\* ------------------------------------------------------------------ CameraApp
STATE_AF == 0
STATE_CAPTURE == 1

\* The window after __init__: button enabled, checkbox checked, no job.
CAInit ==
    /\ ca_enabled = TRUE
    /\ ca_af_checked = TRUE
    /\ ca_state = STATE_AF
    /\ ca_jobs = <<>>
    /\ ca_done = <<>>
    /\ ca_log = <<>>
    /\ ca_nclicks = 0

\* The user toggles 'AF before capture'; the checkbox is never disabled.
CA_ToggleAf ==
    /\ ca_af_checked' = ~ca_af_checked
    /\ UNCHANGED <<ca_enabled, ca_state, ca_jobs, ca_done, ca_log, ca_nclicks>>

\* Mutant of CA_OnCaptureClicked: the button is left enabled.
CA_OnCaptureClicked_ButtonStaysEnabled ==
    /\ ca_enabled
    /\ ca_nclicks < MaxClicks
    /\ ca_nclicks' = ca_nclicks + 1
    /\ ca_state' = IF ca_af_checked THEN STATE_AF ELSE STATE_CAPTURE
    /\ IF ca_af_checked
       THEN /\ ca_jobs' = Append(ca_jobs, "af")
            /\ ca_log' = ca_log \o <<"click_af", "af_requested">>
       ELSE /\ ca_jobs' = Append(ca_jobs, "capture")
            /\ ca_log' = ca_log \o <<"click", "capture_requested">>
    /\ UNCHANGED <<ca_enabled, ca_af_checked, ca_done>>

\* _on_capture_clicked, reached only through the enabled button: the button
\* is disabled, the state set from the checkbox, and an autofocus cycle or
\* the capture (_do_capture) requested.
CA_OnCaptureClicked ==
    /\ ca_enabled
    /\ ca_nclicks < MaxClicks
    /\ ca_nclicks' = ca_nclicks + 1
    /\ ca_enabled' = FALSE
    /\ ca_state' = IF ca_af_checked THEN STATE_AF ELSE STATE_CAPTURE
    /\ IF ca_af_checked
       THEN /\ ca_jobs' = Append(ca_jobs, "af")
            /\ ca_log' = ca_log \o <<"click_af", "af_requested">>
       ELSE /\ ca_jobs' = Append(ca_jobs, "capture")
            /\ ca_log' = ca_log \o <<"click", "capture_requested">>
    /\ UNCHANGED <<ca_af_checked, ca_done>>

\* The camera finishes its oldest job and signal_done queues done_signal.
CA_JobDone ==
    /\ ca_jobs # <<>>
    /\ ca_done' = Append(ca_done, Head(ca_jobs))
    /\ ca_jobs' = Tail(ca_jobs)
    /\ UNCHANGED <<ca_enabled, ca_af_checked, ca_state, ca_log, ca_nclicks>>

\* The completion of a job, as the callback sees it.
CA_DoneEvent(job) == IF job = "af" THEN "af_done" ELSE "capture_done"

\* _camera_callback(job): in STATE_AF the capture is requested; otherwise the
\* result is shown and the button enabled again.
CA_CameraCallback ==
    /\ ca_done # <<>>
    /\ ca_done' = Tail(ca_done)
    /\ IF ca_state = STATE_AF
       THEN /\ ca_state' = STATE_CAPTURE
            /\ ca_jobs' = Append(ca_jobs, "capture")
            /\ ca_log' = ca_log \o <<CA_DoneEvent(Head(ca_done)), "capture_requested">>
            /\ UNCHANGED ca_enabled
       ELSE /\ ca_enabled' = TRUE
            /\ ca_log' = ca_log \o <<CA_DoneEvent(Head(ca_done)), "enabled">>
            /\ UNCHANGED <<ca_state, ca_jobs>>
    /\ UNCHANGED <<ca_af_checked, ca_nclicks>>

\* ---------------------------------------------------------------- DIContainer
\* The interfaces main.py registers, by their __name__.
Interfaces == {"CameraServiceInterface", "FileManagerInterface"}

\* What callers pass to get: the interface class, as the signature says, or
\* its name as a string, as MainWindow.setup_widgets does.
ArgKinds == {"type", "str"}

DI_NoCall == [op |-> "none", key |-> "", arg |-> "type", known |-> FALSE, ret |-> "none",
              obj |-> 0]

\* The container after __init__.
DIInit ==
    /\ di_factories = {}
    /\ di_singletons = [i \in Interfaces |-> 0]
    /\ di_nobjs = 0
    /\ di_made = [i \in Interfaces |-> 0]
    /\ di_got = [i \in Interfaces |-> {}]
    /\ di_last = DI_NoCall
    /\ di_ncalls = 0

DI_Call == di_ncalls < MaxDiCalls /\ di_ncalls' = di_ncalls + 1

\* register_singleton(interface, implementation): a factory under the key.
DI_RegisterSingleton(i) ==
    /\ DI_Call
    /\ di_factories' = di_factories \cup {i}
    /\ di_made' = [di_made EXCEPT ![i] = 0]
    /\ di_got' = [di_got EXCEPT ![i] = {}]
    /\ di_last' = [DI_NoCall EXCEPT !.op = "register_singleton", !.key = i]
    /\ UNCHANGED <<di_singletons, di_nobjs>>

\* register_instance(interface, instance): the instance, made by the caller,
\* under the key.
DI_RegisterInstance(i) ==
    /\ DI_Call
    /\ di_nobjs' = di_nobjs + 1
    /\ di_singletons' = [di_singletons EXCEPT ![i] = di_nobjs + 1]
    /\ di_made' = [di_made EXCEPT ![i] = 0]
    /\ di_got' = [di_got EXCEPT ![i] = {}]
    /\ di_last' = [DI_NoCall EXCEPT !.op = "register_instance", !.key = i]
    /\ UNCHANGED di_factories

\* get(interface): key = interface.__name__, which a str does not have; then
\* the kept instance, or the factory's product, kept, or AppBaseException.
DI_Get(i, kind) ==
    /\ DI_Call
    /\ LET known == di_singletons[i] # 0 \/ i \in di_factories
           call == [DI_NoCall EXCEPT !.op = "get", !.key = i, !.arg = kind, !.known = known]
       IN  IF kind = "str"
           THEN /\ di_last' = [call EXCEPT !.ret = "AttributeError"]
                /\ UNCHANGED <<di_singletons, di_nobjs, di_made, di_got>>
           ELSE IF di_singletons[i] # 0
           THEN /\ di_last' = [call EXCEPT !.ret = "instance", !.obj = di_singletons[i]]
                /\ di_got' = [di_got EXCEPT ![i] = @ \cup {di_singletons[i]}]
                /\ UNCHANGED <<di_singletons, di_nobjs, di_made>>
           ELSE IF i \in di_factories
           THEN /\ di_nobjs' = di_nobjs + 1
                /\ di_singletons' = [di_singletons EXCEPT ![i] = di_nobjs + 1]
                /\ di_made' = [di_made EXCEPT ![i] = @ + 1]
                /\ di_last' = [call EXCEPT !.ret = "instance", !.obj = di_nobjs + 1]
                /\ di_got' = [di_got EXCEPT ![i] = @ \cup {di_nobjs + 1}]
           ELSE /\ di_last' = [call EXCEPT !.ret = "AppBaseException"]
                /\ UNCHANGED <<di_singletons, di_nobjs, di_made, di_got>>
    /\ UNCHANGED di_factories

\* clear(): every instance cleaned up, every dictionary emptied.
DI_Clear ==
    /\ DI_Call
    /\ di_factories' = {}
    /\ di_singletons' = [i \in Interfaces |-> 0]
    /\ di_made' = [i \in Interfaces |-> 0]
    /\ di_got' = [i \in Interfaces |-> {}]
    /\ di_last' = [DI_NoCall EXCEPT !.op = "clear"]
    /\ UNCHANGED di_nobjs

\* -------------------------------------------------------------- CameraService
\* The service after __init__.
CSInit ==
    /\ cs_cap = FALSE
    /\ cs_is_initialized = FALSE
    /\ cs_is_capturing = FALSE
    /\ cs_timer_active = FALSE
    /\ cs_timer_starts = 0
    /\ cs_frames = 0
    /\ cs_last = [op |-> "none", was_capturing |-> FALSE, ret |-> FALSE]
    /\ cs_ncalls = 0

CS_Call(op, ret) ==
    /\ cs_ncalls < MaxCsCalls
    /\ cs_ncalls' = cs_ncalls + 1
    /\ cs_last' = [op |-> op, was_capturing |-> cs_is_capturing, ret |-> ret]

\* The state after cleanup(): stop_capture, the handle released, both flags
\* false.
CS_CleanedUp ==
    /\ cs_timer_active' = FALSE
    /\ cs_cap' = FALSE
    /\ cs_is_initialized' = FALSE
    /\ cs_is_capturing' = FALSE

\* The body of initialize() when the camera is not initialized: the device
\* opens and the flag is set, or the open or the set-up fails and cleanup()
\* runs.
CS_InitializeBody(ok) ==
    IF ok
    THEN /\ cs_cap' = TRUE
         /\ cs_is_initialized' = TRUE
         /\ UNCHANGED <<cs_is_capturing, cs_timer_active>>
    ELSE CS_CleanedUp

\* initialize()
CS_Initialize ==
    /\ IF cs_is_initialized
       THEN /\ CS_Call("initialize", TRUE)
            /\ UNCHANGED <<cs_cap, cs_is_initialized, cs_is_capturing, cs_timer_active>>
       ELSE \E ok \in BOOLEAN : CS_Call("initialize", ok) /\ CS_InitializeBody(ok)
    /\ UNCHANGED <<cs_timer_starts, cs_frames>>

\* start_capture(): initialize() first when needed; True at once when
\* already capturing; else the timer started and is_capturing set, or the
\* start raises and False is returned.
CS_StartCapture ==
    IF ~cs_is_initialized
    THEN \E ok \in BOOLEAN, started \in BOOLEAN :
            /\ CS_Call("start_capture", ok /\ (cs_is_capturing \/ started))
            /\ IF ~ok
               THEN CS_InitializeBody(FALSE) /\ UNCHANGED cs_timer_starts
               ELSE /\ cs_cap' = TRUE
                    /\ cs_is_initialized' = TRUE
                    /\ IF cs_is_capturing \/ ~started
                       THEN UNCHANGED <<cs_is_capturing, cs_timer_active, cs_timer_starts>>
                       ELSE /\ cs_timer_active' = TRUE
                            /\ cs_timer_starts' = cs_timer_starts + 1
                            /\ cs_is_capturing' = TRUE
            /\ UNCHANGED cs_frames
    ELSE IF cs_is_capturing
    THEN /\ CS_Call("start_capture", TRUE)
         /\ UNCHANGED <<cs_cap, cs_is_initialized, cs_is_capturing, cs_timer_active,
                        cs_timer_starts, cs_frames>>
    ELSE \E started \in BOOLEAN :
            /\ CS_Call("start_capture", started)
            /\ IF started
               THEN /\ cs_timer_active' = TRUE
                    /\ cs_timer_starts' = cs_timer_starts + 1
                    /\ cs_is_capturing' = TRUE
               ELSE UNCHANGED <<cs_is_capturing, cs_timer_active, cs_timer_starts>>
            /\ UNCHANGED <<cs_cap, cs_is_initialized, cs_frames>>

\* stop_capture()
CS_StopCapture ==
    /\ CS_Call("stop_capture", TRUE)
    /\ cs_timer_active' = FALSE
    /\ cs_is_capturing' = FALSE
    /\ UNCHANGED <<cs_cap, cs_is_initialized, cs_timer_starts, cs_frames>>

\* capture_frame(): a frame or None, no state changed.
CS_CaptureFrame ==
    /\ \E read \in BOOLEAN : CS_Call("capture_frame", cs_is_initialized /\ cs_cap /\ read)
    /\ UNCHANGED <<cs_cap, cs_is_initialized, cs_is_capturing, cs_timer_active,
                   cs_timer_starts, cs_frames>>

\* _capture_frame_async, on a timeout of the running timer: capture_frame()
\* and, when it gave a frame, frame_captured.
CS_CaptureFrameAsync ==
    /\ cs_timer_active
    /\ cs_frames < MaxCsFrames
    /\ cs_is_initialized /\ cs_cap
    /\ cs_frames' = cs_frames + 1
    /\ UNCHANGED <<cs_cap, cs_is_initialized, cs_is_capturing, cs_timer_active,
                   cs_timer_starts, cs_last, cs_ncalls>>

\* Mutant of CS_Cleanup: the capture is not stopped.
CS_Cleanup_CaptureNotStopped ==
    /\ CS_Call("cleanup", TRUE)
    /\ cs_cap' = FALSE
    /\ cs_is_initialized' = FALSE
    /\ UNCHANGED <<cs_is_capturing, cs_timer_active, cs_timer_starts, cs_frames>>

\* cleanup()
CS_Cleanup ==
    /\ CS_Call("cleanup", TRUE)
    /\ CS_CleanedUp
    /\ UNCHANGED <<cs_timer_starts, cs_frames>>

\* -------------------------------------------------------------- ConfigManager
CfKeys == {"a", "b"}
CfScalars == {"v1", "v2"}

\* The keys callers pass, as strings of characters.
CfKeyStrings ==
    {<<k>> : k \in CfKeys} \cup {<<k1, ".", k2>> : k1 \in CfKeys, k2 \in CfKeys}

\* key.split(".")
RECURSIVE CF_Split(_)
CF_Split(s) ==
    IF \A i \in 1..Len(s) : s[i] # "." THEN <<s>>
    ELSE LET d == CHOOSE i \in 1..Len(s) : s[i] = "." /\ \A j \in 1..(i - 1) : s[j] # "."
         IN  <<SubSeq(s, 1, d - 1)>> \o CF_Split(SubSeq(s, d + 1, Len(s)))

\* The key paths of the key strings: one or two keys.
CF_Path(s) == [i \in 1..Len(CF_Split(s)) |-> CF_Split(s)[i][1]]

\* What a dictionary holds under a key: nothing, a scalar, or a dictionary
\* of scalars.
CfNoSub == [k \in CfKeys |-> "-"]
CfAbsent == [kind |-> "absent", val |-> "-", sub |-> CfNoSub]
CfScalar(v) == [kind |-> "scalar", val |-> v, sub |-> CfNoSub]
CfDict(d) == [kind |-> "dict", val |-> "-", sub |-> d]
CfDefault == [kind |-> "default", val |-> "-", sub |-> CfNoSub]

\* The manager after __init__: an empty dictionary.
CFInit ==
    /\ cf_config = [k \in CfKeys |-> CfAbsent]
    /\ cf_set = {}
    /\ cf_last = [op |-> "none", path |-> <<>>, value |-> "-", raised |-> FALSE,
                  got |-> CfDefault]
    /\ cf_ncalls = 0

\* get(key, default) on the dictionary c: the value walked to, or the default
\* on KeyError (no such key) and TypeError (a scalar indexed by a key).
CF_GetValue(c, p) ==
    LET top == c[p[1]]
    IN  IF top.kind = "absent" THEN CfDefault
        ELSE IF Len(p) = 1 THEN top
        ELSE IF top.kind = "scalar" THEN CfDefault
        ELSE IF top.sub[p[2]] = "-" THEN CfDefault
        ELSE CfScalar(top.sub[p[2]])

\* set(key, value) raises TypeError: a key before the last holds a scalar.
CF_SetRaises(c, p) == Len(p) = 2 /\ c[p[1]].kind = "scalar"

\* The dictionary after set(key, value) has run to its end.
CF_SetValue(c, p, v) ==
    IF Len(p) = 1 THEN [c EXCEPT ![p[1]] = CfScalar(v)]
    ELSE LET d == IF c[p[1]].kind = "absent" THEN CfNoSub ELSE c[p[1]].sub
         IN  [c EXCEPT ![p[1]] = CfDict([d EXCEPT ![p[2]] = v])]

\* set(key, value)
CF_Set(s, v) ==
    /\ cf_ncalls < MaxCfCalls
    /\ cf_ncalls' = cf_ncalls + 1
    /\ LET p == CF_Path(s)
       IN  IF CF_SetRaises(cf_config, p)
           THEN /\ cf_last' = [op |-> "set", path |-> p, value |-> v, raised |-> TRUE,
                               got |-> CfDefault]
                /\ UNCHANGED <<cf_config, cf_set>>
           ELSE /\ cf_config' = CF_SetValue(cf_config, p, v)
                /\ cf_set' = cf_set \cup {p}
                /\ cf_last' = [op |-> "set", path |-> p, value |-> v, raised |-> FALSE,
                               got |-> CfDefault]

\* get(key, default)
CF_Get(s) ==
    /\ cf_ncalls < MaxCfCalls
    /\ cf_ncalls' = cf_ncalls + 1
    /\ cf_last' = [op |-> "get", path |-> CF_Path(s), value |-> "-", raised |-> FALSE,
                   got |-> CF_GetValue(cf_config, CF_Path(s))]
    /\ UNCHANGED <<cf_config, cf_set>>

\* ----------------------------------------------------------- specifications
\* The two session managers belong to two variants of the application and
\* never run together: a run exercises one of them, the other stays as
\* constructed.
SRRun == obj = "sr" /\ UNCHANGED <<obj, ss_vars, ms_vars, aw_vars, gw_vars, fm_vars,
                            gb_vars, ca_vars, di_vars, cs_vars, cf_vars>>

SSRun == obj = "ss" /\ UNCHANGED <<obj, sr_vars, ms_vars, aw_vars, gw_vars, fm_vars,
                            gb_vars, ca_vars, di_vars, cs_vars, cf_vars>>

MSRun == obj = "ms" /\ UNCHANGED <<obj, sr_vars, ss_vars, aw_vars, gw_vars, fm_vars,
                            gb_vars, ca_vars, di_vars, cs_vars, cf_vars>>

AWRun == obj = "aw" /\ UNCHANGED <<obj, sr_vars, ss_vars, ms_vars, gw_vars, fm_vars,
                            gb_vars, ca_vars, di_vars, cs_vars, cf_vars>>

GWRun == obj = "gw" /\ UNCHANGED <<obj, sr_vars, ss_vars, ms_vars, aw_vars, fm_vars,
                            gb_vars, ca_vars, di_vars, cs_vars, cf_vars>>

NextSR ==
    \/ SR_StartRecording /\ SRRun
    \/ SR_StartEmit /\ SRRun
    \/ SR_StopRecording /\ SRRun
    \/ \E w \in Workers : SR_Enter(w) /\ SRRun
    \/ \E w \in Workers : SR_Assign(w) /\ SRRun
    \/ \E w \in Workers : SR_Call(w) /\ SRRun
    \/ \E w \in Workers : SR_Next(w) /\ SRRun
    \/ \E w \in Workers : SR_Emit(w) /\ SRRun
    \/ \E w \in Workers : SR_ExitStop(w) /\ SRRun
    \/ \E w \in Workers : SR_Exit(w) /\ SRRun
    \/ \E w \in Workers : SR_Except(w) /\ SRRun
    \/ \E w \in Workers : SR_Finally(w) /\ SRRun

NextSS ==
    \/ SS_StartRecognition /\ SSRun
    \/ SS_StartStream /\ SSRun
    \/ SS_StopRecognition /\ SSRun
    \/ \E w \in Workers : SS_WorkerCall(w) /\ SSRun
    \/ \E w \in Workers : SS_WorkerNext(w) /\ SSRun
    \/ \E w \in Workers : SS_WorkerEmit(w) /\ SSRun
    \/ \E w \in Workers : SS_AudioGenerator(w) /\ SSRun
    \/ \E s \in Workers : SS_AudioCallback(s) /\ SSRun

\* A MicrophoneStream with its device callback, the generator pulled by the
\* streaming call, and the owner's calls.
NextMS ==
    \/ MS_Enter /\ MSRun
    \/ MS_FillBuffer /\ MSRun
    \/ MS_GenStart /\ MSRun
    \/ MS_GenHead /\ MSRun
    \/ MS_GenGet /\ MSRun
    \/ MS_StopSetsClosed /\ MSRun
    \/ MS_Exit /\ MSRun

\* The two transcript displays, each fed by its session manager's signal.
NextW ==
    \/ \E t \in WTranscripts : \E fin \in BOOLEAN : AW_OnTranscriptUpdated(t, fin) /\ AWRun
    \/ AW_OnClearClicked /\ AWRun
    \/ \E t \in WTranscripts : \E fin \in BOOLEAN : GW_Deliver(t, fin) /\ GWRun
    \/ GW_ClearText /\ GWRun
    \/ GW_ToggleInterim /\ GWRun

Next == NextSR \/ NextSS \/ NextMS

InitSR ==
    /\ obj = "sr"
    /\ SRInit(BOOLEAN) /\ SSInit({TRUE}) /\ MSInit /\ AWInit /\ GWInit
    /\ FMInit /\ GBInit /\ CAInit /\ DIInit /\ CSInit /\ CFInit

InitSS ==
    /\ obj = "ss"
    /\ SRInit({TRUE}) /\ SSInit(BOOLEAN) /\ MSInit /\ AWInit /\ GWInit
    /\ FMInit /\ GBInit /\ CAInit /\ DIInit /\ CSInit /\ CFInit

InitMS ==
    /\ obj = "ms"
    /\ SRInit({TRUE}) /\ SSInit({TRUE}) /\ MSInit /\ AWInit /\ GWInit
    /\ FMInit /\ GBInit /\ CAInit /\ DIInit /\ CSInit /\ CFInit

InitW ==
    /\ obj \in {"aw", "gw"}
    /\ SRInit({TRUE})
    /\ SSInit({TRUE})
    /\ MSInit
    /\ AWInit
    /\ GWInit
    /\ FMInit
    /\ GBInit
    /\ CAInit
    /\ DIInit
    /\ CSInit
    /\ CFInit

Init == InitSR \/ InitSS \/ InitMS

Spec == Init /\ [][Next]_vars

SpecSR == InitSR /\ [][NextSR]_vars

SpecSS == InitSS /\ [][NextSS]_vars

SpecMS == InitMS /\ [][NextMS]_vars

SpecW == InitW /\ [][NextW]_vars

FMRun == obj = "fm" /\ UNCHANGED <<obj, sr_vars, ss_vars, ms_vars, aw_vars, gw_vars,
                            gb_vars, ca_vars, di_vars, cs_vars, cf_vars>>

NextFM ==
    \/ \E t \in FThreads : FM_SaveFile(t) /\ FMRun
    \/ \E t \in FThreads : FM_SaveAcquire(t) /\ FMRun
    \/ \E t \in FThreads : FM_SaveParent(t) /\ FMRun
    \/ \E t \in FThreads : FM_EnsureDirectory(t) /\ FMRun
    \/ \E t \in FThreads : FM_EnsureAcquire(t) /\ FMRun
    \/ \E t \in FThreads : FM_EnsureMkdir(t) /\ FMRun
    \/ \E t \in FThreads : FM_SaveWrite(t) /\ FMRun

InitFM ==
    /\ obj = "fm"
    /\ SRInit({TRUE}) /\ SSInit({TRUE}) /\ MSInit /\ AWInit /\ GWInit
    /\ FMInit
    /\ GBInit
    /\ CAInit
    /\ DIInit
    /\ CSInit
    /\ CFInit

SpecFM == InitFM /\ [][NextFM]_vars

GBRun == obj = "gb" /\ UNCHANGED <<obj, sr_vars, ms_vars, aw_vars, gw_vars, fm_vars,
                            ca_vars, di_vars, cs_vars, cf_vars>>

NextGB ==
    \/ GB_StartRecording /\ GBRun
    \/ GB_StartRecordingEnds /\ GBRun
    \/ GB_StopRecording /\ GBRun
    \/ \E w \in Workers : GB_WorkerCall(w) /\ GBRun
    \/ \E w \in Workers : GB_WorkerNext(w) /\ GBRun
    \/ \E w \in Workers : GB_WorkerEmit(w) /\ GBRun
    \/ GB_HandleError /\ GBRun

InitGB ==
    /\ obj = "gb"
    /\ SRInit({TRUE}) /\ SSInit({TRUE}) /\ MSInit /\ AWInit /\ GWInit
    /\ FMInit
    /\ GBInit
    /\ CAInit
    /\ DIInit
    /\ CSInit
    /\ CFInit

SpecGB == InitGB /\ [][NextGB]_vars

CARun ==
    obj = "ca" /\ UNCHANGED <<obj, sr_vars, ss_vars, ms_vars, aw_vars, gw_vars, fm_vars,
        gb_vars, di_vars, cs_vars, cf_vars>>

NextCA ==
    \/ CA_ToggleAf /\ CARun
    \/ CA_OnCaptureClicked /\ CARun
    \/ CA_JobDone /\ CARun
    \/ CA_CameraCallback /\ CARun

InitCA ==
    /\ obj = "ca"
    /\ SRInit({TRUE}) /\ SSInit({TRUE}) /\ MSInit /\ AWInit /\ GWInit
    /\ FMInit
    /\ GBInit
    /\ CAInit
    /\ DIInit
    /\ CSInit
    /\ CFInit

SpecCA == InitCA /\ [][NextCA]_vars

DIRun ==
    obj = "di" /\ UNCHANGED <<obj, sr_vars, ss_vars, ms_vars, aw_vars, gw_vars, fm_vars,
        gb_vars, ca_vars, cs_vars, cf_vars>>

NextDI ==
    \/ \E i \in Interfaces : DI_RegisterSingleton(i) /\ DIRun
    \/ \E i \in Interfaces : DI_RegisterInstance(i) /\ DIRun
    \/ \E i \in Interfaces, kind \in ArgKinds : DI_Get(i, kind) /\ DIRun
    \/ DI_Clear /\ DIRun

InitDI ==
    /\ obj = "di"
    /\ SRInit({TRUE}) /\ SSInit({TRUE}) /\ MSInit /\ AWInit /\ GWInit
    /\ FMInit
    /\ GBInit
    /\ CAInit
    /\ DIInit
    /\ CSInit
    /\ CFInit

SpecDI == InitDI /\ [][NextDI]_vars

CSRun ==
    obj = "cs" /\ UNCHANGED <<obj, sr_vars, ss_vars, ms_vars, aw_vars, gw_vars, fm_vars,
        gb_vars, ca_vars, di_vars, cf_vars>>

NextCS ==
    \/ CS_Initialize /\ CSRun
    \/ CS_StartCapture /\ CSRun
    \/ CS_StopCapture /\ CSRun
    \/ CS_CaptureFrame /\ CSRun
    \/ CS_CaptureFrameAsync /\ CSRun
    \/ CS_Cleanup /\ CSRun

InitCS ==
    /\ obj = "cs"
    /\ SRInit({TRUE}) /\ SSInit({TRUE}) /\ MSInit /\ AWInit /\ GWInit
    /\ FMInit
    /\ GBInit
    /\ CAInit
    /\ DIInit
    /\ CSInit
    /\ CFInit

SpecCS == InitCS /\ [][NextCS]_vars

CFRun ==
    obj = "cf" /\ UNCHANGED <<obj, sr_vars, ss_vars, ms_vars, aw_vars, gw_vars, fm_vars,
        gb_vars, ca_vars, di_vars, cs_vars>>

NextCF ==
    \/ \E s \in CfKeyStrings, v \in CfScalars : CF_Set(s, v) /\ CFRun
    \/ \E s \in CfKeyStrings : CF_Get(s) /\ CFRun

InitCF ==
    /\ obj = "cf"
    /\ SRInit({TRUE}) /\ SSInit({TRUE}) /\ MSInit /\ AWInit /\ GWInit
    /\ FMInit
    /\ GBInit
    /\ CAInit
    /\ DIInit
    /\ CSInit
    /\ CFInit

SpecCF == InitCF /\ [][NextCF]_vars

\* ------------------------------------------------------------------- claims
\* The signals of `log` emitted by thread w, in order.
EventsBy(log, w) == SelectSeq(log, LAMBDA e : e.by = w)

\* How many signals of kind k `log` holds for session g.
CountFor(log, k, g) == Len(SelectSeq(log, LAMBDA e : e.k = k /\ e.gen = g))

\* How many signals of kind k thread w emitted.
CountBy(log, k, w) == Len(SelectSeq(log, LAMBDA e : e.k = k /\ e.by = w))

SROpenDevices == {w \in Workers : sr_open[w]}

\* C1: the microphone device is open iff the session is starting or recording
\* (is_recording true): never open while is_recording is false, and while
\* is_recording is true the session's worker is starting, holds the device
\* open, or is tearing down.
C1_DeviceOpenIffRecording ==
    /\ SROpenDevices # {} => sr_is_recording
    /\ sr_is_recording =>
          \/ SROpenDevices # {}
          \/ sr_pc[sr_nthreads] \in {"spawned", "exit", "except", "finally"}

\* C2: at most one MicrophoneStream device handle is open at any time.
C2_AtMostOneDeviceOpen == Cardinality(SROpenDevices) <= 1

\* C3: a session that opened the device and has ended produced exactly one
\* recording_stopped, whichever path ended it.
C3_ExactlyOneRecordingStopped ==
    \A w \in Workers :
        (sr_pc[w] = "done" /\ sr_exc[w] # "open")
            => CountFor(sr_log, "recording_stopped", w) = 1

\* C4: no transcript of an earlier session is emitted after the
\* recording_started of a later session.
C4_NoStaleTranscript ==
    \A i \in 1..Len(sr_log) : \A j \in 1..Len(sr_log) :
        (i < j /\ sr_log[i].k = "recording_started" /\ sr_log[j].k = "transcript_updated")
            => sr_log[j].gen >= sr_log[i].gen

SSOpenStreams == {s \in Workers : ss_dev[s] = "open"}

\* C5: once a failure was reported (start_stream() raised after the stream was
\* opened, the streaming call raised, or the response iteration raised) and the
\* failing code has run to its end, the service is not recording and holds no
\* open audio stream.
C5_NoFailureLeavesRecording ==
    /\ (ss_main = "idle" /\ ss_last = "start" /\ ~ss_ret) => SSOpenStreams = {}
    /\ \A w \in Workers :
          (/\ ss_main = "idle"
           /\ ss_pc[w] = "done"
           /\ ss_end[w] \in {"call_raised", "iter_raised"}
           /\ CountBy(ss_log, "error_occurred", w) > 0)
              => (ss_dev[w] # "open" /\ ~(ss_is_recording /\ ss_nstreams = w))

SRCallStep(op) == sr_ncalls' = sr_ncalls + 1 /\ sr_last' = op
SSCallStep(op) == ss_ncalls' = ss_ncalls + 1 /\ ss_last' = op

SRSessionUnchanged ==
    UNCHANGED <<sr_client, sr_is_recording, sr_stream, sr_main, sr_nthreads, sr_pc,
                sr_closed, sr_open, sr_cur, sr_exc, sr_nresp, sr_got, sr_log>>

SSSessionUnchanged ==
    UNCHANGED <<ss_interim, ss_client, ss_audio, ss_stream, ss_dev, ss_nstreams,
                ss_is_recording, ss_should_stop, ss_queue, ss_main, ss_pc, ss_gen,
                ss_cur, ss_end, ss_nresp, ss_got, ss_log>>

\* C6: a start call made while is_recording is true opens no device, spawns no
\* thread, emits no signal and changes no session state; start_recognition
\* then returns True.
C6_IdempotentStart ==
    [][/\ (SRCallStep("start") /\ sr_is_recording) => SRSessionUnchanged
       /\ (SSCallStep("start") /\ ss_is_recording)
             => (SSSessionUnchanged /\ ss_ret' = TRUE)]_vars

\* C6 witness: start_recognition was called a second time while the first
\* session was recording.
C6_Witness ==
    /\ ss_ncalls = 2
    /\ ss_last = "start"
    /\ ss_main = "idle"
    /\ ss_is_recording
    /\ ss_nstreams = 1
    /\ Len(ss_log) = 1
    /\ ss_log[1].k = "recording_status_changed"
    /\ ss_log[1].f

SRIdle == ~sr_is_recording /\ \A w \in Workers : sr_pc[w] \in {"unborn", "done"}

SSIdle ==
    /\ ~ss_is_recording
    /\ ss_stream = 0
    /\ \A w \in Workers : ss_pc[w] \in {"unborn", "done"}

\* C7: a stop call made while the session is idle emits no signal and changes
\* no state.
C7_StopWhileIdleIsNoOp ==
    [][/\ (SRCallStep("stop") /\ SRIdle) => SRSessionUnchanged
       /\ (SSCallStep("stop") /\ SSIdle) => SSSessionUnchanged]_vars

\* The transcripts of the response set that hold the whole word "exit" or
\* "quit", in any case.
ExitTranscripts == {T_exit, T_okQuit}

IsExitEvent(e) == e.k = "transcript_updated" /\ e.f /\ e.t \in ExitTranscripts

\* C8, in every state: a thread is about to stop the session from inside
\* _process_responses exactly when the transcript it has just emitted is final
\* and holds the whole word; after such a transcript the thread emits nothing
\* but recording_stopped, and its device is closed once it has left the with
\* block.
C8_State ==
    \A w \in Workers :
        LET evs == EventsBy(sr_log, w)
            n == Len(evs)
        IN  /\ (n > 0 /\ evs[n].k = "transcript_updated")
                  => (sr_pc[w] = "exit_stop" <=> IsExitEvent(evs[n]))
            /\ sr_pc[w] = "exit_stop" => (n > 0 /\ IsExitEvent(evs[n]))
            /\ \A i \in 1..n :
                  IsExitEvent(evs[i]) =>
                      /\ \A j \in (i + 1)..n : evs[j].k = "recording_stopped"
                      /\ sr_pc[w] \in {"exit_stop", "exit", "finally", "done"}
                      /\ sr_pc[w] # "exit_stop" => n > i
                      /\ sr_pc[w] \in {"finally", "done"} => ~sr_open[w]

\* C8, in every step: the stop made on the exit phrase sets is_recording false
\* and emits recording_stopped right after the transcript.
C8_Step ==
    \A w \in Workers :
        (sr_pc[w] = "exit_stop" /\ sr_pc'[w] # "exit_stop")
            => /\ ~sr_is_recording'
               /\ sr_log' = Append(sr_log, Ev("recording_stopped", w, w, <<>>, FALSE))

\* C8: a final transcript holding the whole word "exit" or "quit" (any case)
\* ends the session from the worker, after the transcript was emitted; an
\* interim one, or a word that only contains it, does not.
C8_ExitPhraseTeardown == [](C8_State) /\ [][C8_Step]_vars

\* C8 witness: a thread emitted an interim "exit", went on, emitted a final
\* "ok QuIt" and has torn the session down.
C8_Witness ==
    \E w \in Workers :
        /\ sr_pc[w] = "done"
        /\ sr_ncalls = 1
        /\ \E i \in 1..Len(sr_log) : \E j \in 1..Len(sr_log) :
              /\ i < j
              /\ sr_log[i] = Ev("transcript_updated", w, w, T_exit, FALSE)
              /\ sr_log[j] = Ev("transcript_updated", w, w, T_okQuit, TRUE)

C10_EndOfStreamTeardown ==
    \A w \in Workers :
        (ss_main = "idle" /\ ss_pc[w] = "done" /\ ss_end[w] = "stream_ended")
            => (ss_dev[w] # "open" /\ ~(ss_is_recording /\ ss_nstreams = w))

\* How many signals of kind k `log` holds.
CountKind(log, k) == Len(SelectSeq(log, LAMBDA e : e.k = k))

\* C11, SpeechRecognition, in every state: a thread whose device open raised
\* holds no device and emits error_occurred exactly once.
C11_SRState ==
    \A w \in Workers :
        sr_exc[w] = "open" =>
            /\ ~sr_open[w]
            /\ sr_pc[w] \in {"except", "finally", "done"}
            /\ CountBy(sr_log, "error_occurred", w) = IF sr_pc[w] = "except" THEN 0 ELSE 1
            /\ CountBy(sr_log, "transcript_updated", w) = 0

\* C11, SpeechRecognition, in every step: the thread's finally resets
\* is_recording, and a start call made while is_recording is false spawns a
\* new thread that makes its own open attempt.
C11_SRStep ==
    /\ \A w \in Workers :
          (sr_exc[w] = "open" /\ sr_pc[w] = "finally" /\ sr_pc'[w] = "done")
              => ~sr_is_recording'
    /\ (SRCallStep("start") /\ ~sr_is_recording /\ sr_client)
          => /\ sr_nthreads' = sr_nthreads + 1
             /\ sr_pc'[sr_nthreads'] = "spawned"
             /\ sr_exc'[sr_nthreads'] = "none"

\* C11, SpeechService, in every step: a start call made while is_recording is
\* false either opens a new stream or fails; when it fails (initialize() or
\* audio.open() raised) it emits error_occurred once, returns False, leaves
\* is_recording false and acquires no stream, and the control thread is free
\* for the next start call.
C11_SSStep ==
    (SSCallStep("start") /\ ~ss_is_recording) =>
        \/ /\ ss_main' = "start_stream"
           /\ ss_nstreams' = ss_nstreams + 1
           /\ ss_dev'[ss_nstreams'] = "open"
           /\ ss_log' = ss_log
        \/ /\ ss_main' = "idle"
           /\ ss_ret' = FALSE
           /\ ~ss_is_recording'
           /\ ss_nstreams' = ss_nstreams
           /\ SSOpenStreams' \subseteq SSOpenStreams
           /\ CountKind(ss_log', "error_occurred") = CountKind(ss_log, "error_occurred") + 1
           /\ CountKind(ss_log', "recording_status_changed")
                 - CountKind(ss_log, "recording_status_changed") \in {0, 1}
           /\ \A i \in (Len(ss_log) + 1)..Len(ss_log') :
                 ss_log'[i].k = "recording_status_changed" => ~ss_log'[i].f

\* C11: a failed device open is reported by one error_occurred, leaves the
\* object not recording and without the device, and does not block the next
\* start call, which makes a fresh open attempt.
C11_OpenFailureReturnsToIdle == [](C11_SRState) /\ [][C11_SRStep /\ C11_SSStep]_vars

\* C11 witness: the first start_recognition failed in audio.open(), the second
\* one opened a stream and is recording.
C11_Witness ==
    /\ Len(ss_log) = 2
    /\ ss_log[1] = Ev("error_occurred", 0, 0, <<>>, FALSE)
    /\ ss_log[2].k = "recording_status_changed"
    /\ ss_log[2].f
    /\ ss_is_recording
    /\ ss_dev[1] = "open"

\* C12: a recording-started signal (recording_started; recording_status_changed
\* with True) is in the log only if the device of its start attempt has been
\* opened successfully.
C12_StartedOnlyAfterOpen ==
    /\ \A i \in 1..Len(sr_log) :
          sr_log[i].k = "recording_started"
              => /\ sr_pc[sr_log[i].gen] # "spawned"
                 /\ sr_exc[sr_log[i].gen] # "open"
    /\ \A i \in 1..Len(ss_log) :
          (ss_log[i].k = "recording_status_changed" /\ ss_log[i].f)
              => ss_dev[ss_log[i].gen] # "none"

\* C13: once the stop call of a session has emitted its signal
\* (recording_stopped; recording_status_changed with False), no transcript of
\* that session follows in the log.
C13_NoTranscriptAfterStop ==
    /\ \A i \in 1..Len(sr_log) : \A j \in 1..Len(sr_log) :
          (/\ i < j
           /\ sr_log[i].k = "recording_stopped"
           /\ sr_log[i].by = 0
           /\ sr_log[i].gen # 0
           /\ sr_log[j].k = "transcript_updated")
              => sr_log[j].gen # sr_log[i].gen
    /\ \A i \in 1..Len(ss_log) : \A j \in 1..Len(ss_log) :
          (/\ i < j
           /\ ss_log[i].k = "recording_status_changed"
           /\ ~ss_log[i].f
           /\ ss_log[i].gen # 0
           /\ ss_log[j].k = "transcription_received")
              => ss_log[j].gen # ss_log[i].gen

\* The threads inside the request/response exchange: the streaming call made,
\* the response loop not yet left.
SRInExchange == {w \in Workers : sr_pc[w] \in {"next", "emit", "exit_stop"}}

SSInExchange == {w \in Workers : ss_pc[w] \in {"next", "emit"}}

\* C14: at most one thread of the object is inside the request/response
\* exchange.
C14_AtMostOneExchange ==
    /\ Cardinality(SRInExchange) <= 1
    /\ Cardinality(SSInExchange) <= 1

\* C15: once stop_recording has acted on the stream, a generator blocked in
\* _buff.get() has something to wake it (the sentinel or a frame): it does not
\* depend on the device delivering another frame.
C15_StopUnblocksGenerator == (ms_stopreq /\ ms_gen = "get") => ms_buff # <<>>

\* C16: __exit__ never raises, also when called again or after a failed
\* __enter__, and the device handle is closed once if it was opened and never
\* otherwise.
C16_CloseIdempotent ==
    /\ ms_raised = "none"
    /\ (ms_nexit > 0 /\ ms_enter = "ok") => ms_released = 1
    /\ ms_enter = "failed" => ms_released = 0

RECURSIVE Flatten(_)
Flatten(qs) == IF qs = <<>> THEN <<>> ELSE Head(qs) \o Flatten(Tail(qs))

\* The frames in capture order: 1, 2, ..., n.
Captured(n) == [i \in 1..n |-> i]

Occurrences(q, x) == Cardinality({i \in 1..Len(q) : q[i] = x})

C17_MSState ==
    /\ \A i \in 1..Len(ms_sent) : ms_sent[i] # <<>>
    /\ Len(Flatten(ms_sent)) <= ms_nframes
    /\ Flatten(ms_sent) = Captured(Len(Flatten(ms_sent)))

\* C17 amended, SpeechService._audio_generator: a turn of the generator takes
\* exactly the oldest chunk of audio_queue; the callback adds at the end; only
\* a start call empties the queue.
C17_SSStep ==
    ss_queue' # ss_queue =>
        \/ /\ ss_queue # <<>>
           /\ ss_queue' = Tail(ss_queue)
           /\ UNCHANGED <<ss_pc, ss_gen, ss_ncalls, ss_log>>
        \/ /\ Len(ss_queue') = Len(ss_queue) + 1
           /\ SubSeq(ss_queue', 1, Len(ss_queue)) = ss_queue
           /\ ss_dev[ss_queue'[Len(ss_queue')]] = "open"
        \/ /\ SSCallStep("start")
           /\ ss_queue' = <<>>

C18_NoFrameLost ==
    LET cut == IF ms_cut = -1 THEN ms_nframes ELSE ms_cut
        flat == Flatten(ms_sent)
    IN  \A f \in 1..cut :
            \/ Occurrences(flat, f) = 1
            \/ /\ Occurrences(flat, f) = 0
               /\ Occurrences(ms_buff, f) = 1
               /\ ms_gen # "ended"

\* The display that holds the final texts of the events alone, one per line.
RECURSIVE FinalsText(_)
FinalsText(evs) ==
    IF evs = <<>> THEN <<>>
    ELSE (IF Head(evs).f THEN Head(evs).t \o NewLine ELSE <<>>) \o FinalsText(Tail(evs))

\* SpeechRecognitionWidget redraws its display from final_transcript.
C19_AppWidget ==
    (aw_events # <<>> /\ aw_events[Len(aw_events)].f) => aw_display = FinalsText(aw_events)

\* C19: when the last event delivered is a final one, the display holds the
\* final texts only: the interim texts that preceded it are gone.
C19_FinalReplacesInterim ==
    /\ C19_AppWidget
    /\ (gw_events # <<>> /\ gw_events[Len(gw_events)].f) => gw_text = FinalsText(gw_events)

\* The transcript signals of `log` emitted by thread w, in order.
TranscriptsBy(log, k, w) == SelectSeq(log, LAMBDA e : e.k = k /\ e.by = w)

\* q without its last element.
Front(q) == SubSeq(q, 1, Len(q) - 1)

\* The responses of thread w that have been emitted: all it has taken, but
\* the one it is about to emit.
SREmitted(w) == IF sr_pc[w] = "emit" THEN Front(sr_got[w]) ELSE sr_got[w]

\* The same for SpeechService, where an interim response yields a signal only
\* when interim_results is enabled.
SSEmitted(w) ==
    SelectSeq(IF ss_pc[w] = "emit" THEN Front(ss_got[w]) ELSE ss_got[w],
              LAMBDA r : r.results[1].is_final \/ ss_interim)

\* C20: the transcript signals of a session are emitted by its own thread
\* only, one for each response in the order the provider delivered the
\* responses.
C20_TranscriptsInProviderOrder ==
    /\ \A i \in 1..Len(sr_log) :
          sr_log[i].k = "transcript_updated" => sr_log[i].by = sr_log[i].gen
    /\ \A i \in 1..Len(ss_log) :
          ss_log[i].k = "transcription_received" => ss_log[i].by = ss_log[i].gen
    /\ \A w \in Workers :
          LET evs == TranscriptsBy(sr_log, "transcript_updated", w)
              rs == SREmitted(w)
          IN  /\ Len(evs) = Len(rs)
              /\ \A i \in 1..Len(evs) :
                    /\ evs[i].t = SR_Transcript(rs[i])
                    /\ evs[i].f = SR_IsFinal(rs[i])
    /\ \A w \in Workers :
          LET evs == TranscriptsBy(ss_log, "transcription_received", w)
              rs == SSEmitted(w)
          IN  /\ Len(evs) = Len(rs)
              /\ \A i \in 1..Len(evs) :
                    /\ evs[i].f = rs[i].results[1].is_final
                    /\ evs[i].t = SS_EmittedText(rs[i].results[1].alternatives[1], evs[i].f)

\* C20 witness: a thread has taken an interim "exit" and then a final "hi", and
\* has emitted both.
C20_Witness ==
    \E w \in Workers :
        /\ sr_got[w] = <<R_interimExit, R_finalHi>>
        /\ sr_pc[w] = "next"
        /\ Len(TranscriptsBy(sr_log, "transcript_updated", w)) = 2

\* The transcript a response stands for: the first alternative of its first
\* result, and that result's final flag.
FirstTranscript(r) == Head(Head(r.results).alternatives)
FirstIsFinal(r) == Head(r.results).is_final

\* The threads that have taken a response and have yet to emit its signal.
SRPending == {w \in Workers : sr_pc[w] = "emit"}
SSPending == {w \in Workers : ss_pc[w] = "emit"}

\* The responses thread w has taken and finished with.
SSHandled(w) == IF ss_pc[w] = "emit" THEN Front(ss_got[w]) ELSE ss_got[w]

SRStoppedByCall(g) ==
    \E i \in 1..Len(sr_log) :
        sr_log[i].k = "recording_stopped" /\ sr_log[i].by = 0 /\ sr_log[i].gen = g

\* C22: when a session was stopped by stop_recording and a newer session has
\* been started and is recording, the finally block of the older session's
\* thread, reached without an exception, leaves is_recording true: it does
\* not end the newer session.
C22_StaleTeardownKeepsNewerSession ==
    [][\A w \in Workers :
          (/\ sr_pc[w] = "finally"
           /\ sr_pc'[w] = "done"
           /\ SRStoppedByCall(w)
           /\ sr_exc[w] = "none"
           /\ w < sr_nthreads
           /\ sr_is_recording)
              => sr_is_recording']_vars

\* C23: a thread inside save_file never waits for the lock it holds itself:
\* the call of ensure_directory made by save_file can always go on, so
\* save_file ends by returning True or raising FileOperationException with
\* the lock released.
C23_SaveFileTerminates ==
    \A t \in FThreads :
        ~(fm_op[t] = "save" /\ fm_pc[t] = "ensure_acquire" /\ fm_lock = t)

\* C24: a chunk leaves audio_queue only into the request stream of the session
\* whose audio stream captured it: whenever a generator takes the head of the
\* queue while every other session's audio stream has been closed, the
\* generator of the thread started with the chunk's audio stream is live and
\* being pulled.
C24_ChunkStaysInItsSession ==
    [][(/\ ss_queue # <<>>
        /\ ss_queue' = Tail(ss_queue)
        /\ ss_ncalls' = ss_ncalls
        /\ \A s \in Workers \ {Head(ss_queue)} : ss_dev[s] # "open")
          => (/\ ss_gen[Head(ss_queue)] = "live"
              /\ ss_pc[Head(ss_queue)] \in {"next", "emit"})]_vars

\* C25: whenever the GUI thread is idle and has handled every queued error,
\* Start is enabled exactly when SpeechService.is_recording is false and Stop
\* exactly when it is true.
C25_ButtonsAgreeWithService ==
    (ss_main = "idle" /\ gb_queued_errors = 0)
        => /\ gb_start_enabled <=> ~ss_is_recording
           /\ gb_stop_enabled <=> ss_is_recording

\* p is an initial part of q.
IsPrefix(p, q) == Len(p) <= Len(q) /\ SubSeq(q, 1, Len(p)) = p

\* One capture cycle begun with 'AF before capture' checked, and one begun
\* with it unchecked.
AFCycle ==
    <<"click_af", "af_requested", "af_done", "capture_requested", "capture_done", "enabled">>
PlainCycle == <<"click", "capture_requested", "capture_done", "enabled">>

\* log is a run of whole capture cycles, the last of which may be under way.
RECURSIVE CyclesInTurn(_)
CyclesInTurn(log) ==
    IF log = <<>> THEN TRUE
    ELSE LET c == IF Head(log) = "click_af" THEN AFCycle ELSE PlainCycle
         IN  IF Len(log) >= Len(c)
             THEN /\ SubSeq(log, 1, Len(c)) = c
                  /\ CyclesInTurn(SubSeq(log, Len(c) + 1, Len(log)))
             ELSE IsPrefix(log, c)

CountOf(log, e) == Cardinality({i \in 1..Len(log) : log[i] = e})

CA_State ==
    /\ CyclesInTurn(ca_log)
    /\ ca_enabled <=> (ca_log = <<>> \/ ca_log[Len(ca_log)] = "enabled")
    /\ Len(ca_jobs) + Len(ca_done) <= 1
    /\ ca_enabled => (ca_jobs = <<>> /\ ca_done = <<>>)
    /\ CountOf(ca_log, "click_af") + CountOf(ca_log, "click") = ca_nclicks
    /\ CountOf(ca_log, "capture_requested") <= ca_nclicks
    /\ ca_enabled => CountOf(ca_log, "capture_requested") = ca_nclicks

\* C26: the events of CameraApp form whole capture cycles one after another,
\* each begun by one click: with 'AF before capture' checked at the click, an
\* autofocus request, its completion, one capture request, its completion
\* and the button enabled; unchecked, the same without the autofocus. The
\* button is disabled while a cycle is under way, at most one job is
\* outstanding, and the button is enabled again only by the callback of a
\* capture job.
C26_OneCaptureCyclePerClick ==
    /\ []CA_State
    /\ [][(~ca_enabled /\ ca_enabled') =>
             (ca_done # <<>> /\ Head(ca_done) = "capture" /\ ca_state = STATE_CAPTURE)]_vars

\* Two clicks have run their cycles to the end, the first with autofocus and
\* the second without.
C26_Witness ==
    /\ ca_nclicks = 2
    /\ ca_log = AFCycle \o PlainCycle
    /\ ca_enabled

\* C27: since an interface was registered, get has called its constructor at
\* most once and has returned one object only; a get for a registered
\* interface returns an instance, and a get for an interface that is not
\* registered raises AppBaseException and makes no object.
C27_GetReturnsSharedInstance ==
    /\ \A i \in Interfaces : di_made[i] <= 1 /\ Cardinality(di_got[i]) <= 1
    /\ di_last.op = "get" =>
          IF di_last.known
          THEN di_last.ret = "instance" /\ di_last.obj = di_singletons[di_last.key]
          ELSE di_last.ret = "AppBaseException" /\ di_singletons[di_last.key] = 0

CS_State ==
    /\ cs_is_capturing => (cs_is_initialized /\ cs_cap)
    /\ (cs_last.op = "cleanup" \/ (cs_last.op = "initialize" /\ ~cs_last.ret))
          => (~cs_cap /\ ~cs_is_initialized /\ ~cs_is_capturing /\ ~cs_timer_active)

\* C28: is_capturing implies is_initialized and a capture handle; after
\* cleanup(), also the one a failing initialize() runs, the handle is
\* released and both flags are false; and start_capture() made while
\* capturing returns True, starts no timer and changes no flag.
C28_CaptureImpliesInitialized ==
    /\ []CS_State
    /\ [][(/\ cs_ncalls' = cs_ncalls + 1
           /\ cs_last'.op = "start_capture"
           /\ cs_is_capturing)
             => (/\ cs_last'.ret
                 /\ cs_timer_starts' = cs_timer_starts
                 /\ UNCHANGED <<cs_cap, cs_is_initialized, cs_is_capturing,
                                cs_timer_active>>)]_vars

\* start_capture() has been called while capturing, after a cleanup() and a
\* new start: the timer has been started twice, once for each capture.
C28_Witness ==
    /\ cs_last.op = "start_capture"
    /\ cs_last.was_capturing
    /\ cs_is_capturing
    /\ cs_timer_starts = 2

\* The key paths of the key strings.
CfPaths == {CF_Path(s) : s \in CfKeyStrings}

\* Key path p was never set, nor a longer path that begins with it.
CfNeverSet(p) == \A q \in cf_set : ~IsPrefix(p, q)

\* C29: a set call does not raise, and get of the key it has set returns the
\* value it has set; get of a key path that was never set returns the
\* default.
C29_SetGetRoundTrip ==
    /\ cf_last.op = "set" =>
          /\ ~cf_last.raised
          /\ CF_GetValue(cf_config, cf_last.path) = CfScalar(cf_last.value)
    /\ \A p \in CfPaths : CfNeverSet(p) => CF_GetValue(cf_config, p) = CfDefault
    /\ (cf_last.op = "get" /\ CfNeverSet(cf_last.path)) => cf_last.got = CfDefault

\* The transcription_received texts of thread w that begin with the interim
\* marker, and those that do not.
SSMarked(w) ==
    SelectSeq(TranscriptsBy(ss_log, "transcription_received", w),
              LAMBDA e : StartsWith(e.t, InterimMarker))
SSPlain(w) ==
    SelectSeq(TranscriptsBy(ss_log, "transcription_received", w),
              LAMBDA e : ~StartsWith(e.t, InterimMarker))

\* C30: with interim_results disabled no emitted text carries the marker and
\* the texts are those of the final results handled; with it enabled the
\* marked texts are those of the interim results handled, each the marker
\* followed by the transcript; in both cases the text of a final result is
\* its transcript stripped, without the marker.
C30_InterimOnlyWhenEnabled ==
    \A w \in Workers :
        LET finals == SelectSeq(SSHandled(w), LAMBDA r : FirstIsFinal(r))
            interims == SelectSeq(SSHandled(w), LAMBDA r : ~FirstIsFinal(r))
            marked == SSMarked(w)
            plain == SSPlain(w)
        IN  /\ Len(plain) = Len(finals)
            /\ Len(marked) = IF ss_interim THEN Len(interims) ELSE 0
            /\ \A i \in 1..Len(plain) :
                  /\ plain[i].t = Strip(FirstTranscript(finals[i]))
                  /\ plain[i].t = Strip(plain[i].t)
            /\ \A i \in 1..Len(marked) :
                  marked[i].t = InterimMarker \o FirstTranscript(interims[i])

\* A thread of a service with interim_results enabled has handled an interim
\* and a padded final result, and emitted the marked and the stripped text.
C30_Witness ==
    \E w \in Workers :
        /\ ss_interim
        /\ ss_got[w] = <<R_interimHi, R_finalPad>>
        /\ ss_pc[w] = "next"
        /\ Len(SSMarked(w)) = 1
        /\ Len(SSPlain(w)) = 1
        /\ SSPlain(w)[1].t = T_hi

====
